---------------------------- MODULE Spec2Model ----------------------------
(***************************************************************************)
(* A model of roundup's administration tool (roundup/admin.py):            *)
(*   - CommandDict.get and AdminTool.run_command (command resolution and   *)
(*     dispatch), specification Spec;                                      *)
(*   - AdminTool.do_export / do_import (the CSV round trip of a class, its *)
(*     journals and its identifier counter), specification SpecRT;         *)
(*   - AdminTool.props_from_args and AdminTool.do_filter (assignment       *)
(*     parsing and the walk along a dotted property path), specification   *)
(*     SpecFilter;                                                         *)
(*   - AdminTool.main with a command on the command line, specification    *)
(*     SpecMain.                                                           *)
(* Text is modelled as sequences of one-character strings, so that prefix  *)
(* tests, sorting and the CSV quoting are computed, not assumed.           *)
(***************************************************************************)
EXTENDS Integers, Sequences, FiniteSets, TLC

VARIABLES
    \* ---- AdminTool session state (admin.py:92-104) ----
    tracker_home,    \* self.tracker_home is a non-empty string
    db,              \* self.db is an open database handle
    db_uncommitted,  \* self.db_uncommitted
    \* ---- the last run_command call ----
    command,         \* args[0] as typed
    functions,       \* what self.commands.get(command) returned (names only)
    lookup,          \* "none" | "help" | "found" | "KeyError"
    executed,        \* name of the do_ method that was called, or NoCmd
    opened,          \* how roundup.instance.open ended in this run_command
                     \* ("no": it was not called)
    db_opened,       \* this run_command called tracker.open (admin.py:1798)
    unc_before,      \* db_uncommitted when this run_command was entered
    ret,             \* value returned by run_command (-1: none yet)
    raised,          \* an exception escaped run_command
    committed,       \* this run_command called self.db.commit()
    \* ---- the tracker's database, as do_export / do_import see it ----
    store,           \* class -> id -> node (or NoNode)
    counter,         \* class -> the next identifier (db.newid / db.setid)
    journal,         \* class -> the journal records of the class, in order
    csv_field_size,  \* self.db.config.CSV_FIELD_SIZE
    \* ---- the export / import directory ----
    dir,             \* [csv, journals: class -> lines or NoFile, blobs]
    \* ---- the last do_ command of the round trip ----
    rt,              \* [cmd, ret, err, calls, warned, max_len]
    \* ---- history, for stating the claims ----
    snap,            \* store and journal when the directory was written
    pre,             \* store and counter when the last import began
    edited,          \* a file of the directory was edited after the export
    phase,           \* where the administrator is: "work" | "exported" | "done"
    \* ---- the last do_filter call ----
    flt,             \* [args, props, err, decoded, filtered, ret]
    \* ---- AdminTool.main in one-off mode ----
    main,            \* [mode, pc, commits, closes, answer]
    \* ---- the last do_set / do_create / do_reindex call ----
    act              \* [name, args, ...]: what the command did

svars == <<tracker_home, db, db_uncommitted, command, functions, lookup,
           executed, opened, db_opened, unc_before, ret, raised, committed>>

rtvars == <<store, counter, journal, csv_field_size, dir, rt, snap, pre,
            edited, phase>>

xvars == <<flt, main, act>>

vars == <<svars, rtvars, xvars>>

---------------------------------------------------------------------------
(* Characters and their order (Python compares str by code point).         *)

Chars == <<"\"", "'", "0", "1", "2", "3", "4", "5", "6", "7", "8", "9", ":",
           "a", "b", "c", "d", "e", "f", "g", "h", "i", "j", "k", "l", "m",
           "n", "o", "p", "q", "r", "s", "t", "u", "v", "w", "x", "y", "z">>

Ord(ch) == CHOOSE i \in 1..Len(Chars) : Chars[i] = ch

Min2(a, b) == IF a <= b THEN a ELSE b

\* s < t for Python strings
StrLess(s, t) ==
    \/ \E i \in 1..Min2(Len(s), Len(t)) :
          /\ \A j \in 1..(i-1) : s[j] = t[j]
          /\ Ord(s[i]) < Ord(t[i])
    \/ /\ Len(s) < Len(t)
       /\ \A j \in 1..Len(s) : s[j] = t[j]

\* t.startswith(s)
StartsWith(t, s) ==
    /\ Len(s) <= Len(t)
    /\ \A j \in 1..Len(s) : t[j] = s[j]

\* sorted(S) for a finite set S of strings
RECURSIVE SortedStrs(_)
SortedStrs(S) ==
    IF S = {} THEN <<>>
    ELSE LET m == CHOOSE x \in S : \A y \in S \ {x} : StrLess(x, y)
         IN  <<m>> \o SortedStrs(S \ {m})

RECURSIVE SeqFilter(_, _)
\* [x for x in seq if x in keep]
SeqFilter(seq, keep) ==
    IF seq = <<>> THEN <<>>
    ELSE (IF Head(seq) \in keep THEN <<Head(seq)>> ELSE <<>>)
         \o SeqFilter(Tail(seq), keep)

Range(seq) == {seq[i] : i \in 1..Len(seq)}

---------------------------------------------------------------------------
(* The command registry: one entry per do_ method (admin.py:93-96).        *)

Registered == {
    <<"h","e","l","p">>,
    <<"i","n","s","t","a","l","l">>,
    <<"g","e","n","c","o","n","f","i","g">>,
    <<"u","p","d","a","t","e","c","o","n","f","i","g">>,
    <<"i","n","i","t","i","a","l","i","s","e">>,
    <<"g","e","t">>,
    <<"s","e","t">>,
    <<"f","i","l","t","e","r">>,
    <<"f","i","n","d">>,
    <<"s","p","e","c","i","f","i","c","a","t","i","o","n">>,
    <<"d","i","s","p","l","a","y">>,
    <<"c","r","e","a","t","e">>,
    <<"l","i","s","t">>,
    <<"t","e","m","p","l","a","t","e","s">>,
    <<"t","a","b","l","e">>,
    <<"h","i","s","t","o","r","y">>,
    <<"c","o","m","m","i","t">>,
    <<"r","o","l","l","b","a","c","k">>,
    <<"r","e","t","i","r","e">>,
    <<"r","e","s","t","o","r","e">>,
    <<"e","x","p","o","r","t">>,
    <<"e","x","p","o","r","t","t","a","b","l","e","s">>,
    <<"i","m","p","o","r","t">>,
    <<"i","m","p","o","r","t","t","a","b","l","e","s">>,
    <<"p","a","c","k">>,
    <<"r","e","i","n","d","e","x">>,
    <<"s","e","c","u","r","i","t","y">>,
    <<"m","i","g","r","a","t","e">> }

NoCmd == <<>>

N_help       == <<"h","e","l","p">>
N_morehelp   == <<"m","o","r","e","h","e","l","p">>
N_initialise == <<"i","n","i","t","i","a","l","i","s","e">>
N_install    == <<"i","n","s","t","a","l","l">>
N_templates  == <<"t","e","m","p","l","a","t","e","s">>
N_commit     == <<"c","o","m","m","i","t">>
N_rollback   == <<"r","o","l","l","b","a","c","k">>
N_migrate    == <<"m","i","g","r","a","t","e">>
N_security   == <<"s","e","c","u","r","i","t","y">>
N_export     == <<"e","x","p","o","r","t">>
N_exporttables == <<"e","x","p","o","r","t","t","a","b","l","e","s">>
N_import     == <<"i","m","p","o","r","t">>
N_importtables == <<"i","m","p","o","r","t","t","a","b","l","e","s">>

\* the commands whose do_ method ends with self.db_uncommitted = True
Mutators == {
    <<"s","e","t">>, <<"c","r","e","a","t","e">>, <<"r","e","t","i","r","e">>,
    <<"r","e","s","t","o","r","e">>, N_import, N_importtables,
    <<"p","a","c","k">> }

\* Typed names: every prefix of a registered name (the empty one too), the
\* two names run_command handles itself, and names that match nothing or
\* extend a registered name.
Typed ==
    UNION {{SubSeq(n, 1, k) : k \in 0..Len(n)} : n \in Registered} \cup
    { N_help, N_morehelp,
      <<"x">>, <<"l","i","s","t","s">>, <<"e","x","p","o","r","t","s">>,
      <<"m","o","r","e">>, <<"h","e","l","p","s">> }

---------------------------------------------------------------------------
(* CommandDict.get(key) with the default left at _marker, as run_command   *)
(* calls it.  The result is a record: err = TRUE stands for KeyError.      *)

\* keylist = sorted(self.data)
keylist == SortedStrs(Registered)

\* mutant: the prefix test with its operands swapped (key.startswith(ki))
MatchingKeys_swapped(key) ==
    SeqFilter(keylist, {ki \in Registered : StartsWith(key, ki)})

\* mutant: a key matches when either string starts with the other
MatchingKeys_either(key) ==
    SeqFilter(keylist, {ki \in Registered :
                            StartsWith(ki, key) \/ StartsWith(key, ki)})

MatchingKeys(key) ==
    SeqFilter(keylist, {ki \in Registered : StartsWith(ki, key)})

\* mutant: the exact-match shortcut of admin.py:59-60 is missing
ExactFirst_never(key) == FALSE

\* if key in self.data
ExactFirst(key) == key \in Registered

CommandDict_get(key) ==
    IF ExactFirst(key)
    THEN [err |-> FALSE, keys |-> <<key>>]
    ELSE LET matching_keys == MatchingKeys(key)
         IN  IF matching_keys = <<>>
             THEN [err |-> TRUE, keys |-> <<>>]
             ELSE [err |-> FALSE, keys |-> matching_keys]

\* self.commands.get(command) for every name the model types
Resolve == [key \in Typed |-> CommandDict_get(key)]

---------------------------------------------------------------------------
(* AdminTool.run_command(args), args[0] = cmd.  The environment's answers  *)
(* are inputs: trk is what roundup.instance.open does, out is how the      *)
(* called do_ method ends, upd is db.db_version_updated (read by migrate). *)

TrackerOutcomes == {"ok", "ValueError", "NoConfigError", "ParsingOptionError"}
FunctionOutcomes == {"ok", "ret1", "UsageError", "Exception"}

\* do_help (admin.py:294) and do_security (admin.py:1646) can return 1
CanReturn1 == {N_help, N_security}

\* mutant: a command that changes the store sets the flag before it fails
FlagAfter_early(name, out, upd, flag) ==
    IF name \in Mutators THEN TRUE
    ELSE IF out # "ok" THEN flag
    ELSE IF name \in {N_commit, N_rollback} THEN FALSE
    ELSE IF name = N_migrate /\ upd THEN TRUE
    ELSE flag

\* self.db_uncommitted after the do_ method `name` ended with `out`
FlagAfter(name, out, upd, flag) ==
    IF out # "ok" THEN flag
    ELSE IF name \in {N_commit, N_rollback} THEN FALSE
    ELSE IF name \in Mutators THEN TRUE
    ELSE IF name = N_migrate /\ upd THEN TRUE
    ELSE flag

\* the value run_command returns after the try block of admin.py:1808-1820
RetAfter(out) == IF out = "ok" THEN 0 ELSE 1

\* mutant: every command that changes the store commits
CallsCommit_mutators(name) == name \in Mutators \cup {N_commit}

\* the do_ method `name` calls self.db.commit(): do_commit alone does
\* (admin.py:1286)
CallsCommit(name) == name = N_commit

\* mutant: the database is opened for every command
OpensDb_always(open) == TRUE

\* if not self.db: self.db = tracker.open(self.name)
OpensDb(open) == ~open

\* mutant: two matches are not yet "multiple"
IsAmbiguous_three(fs) == Len(fs) > 2

\* admin.py:1750: more than one command matches
IsAmbiguous(fs) == Len(fs) > 1

RunHelp(cmd) ==
    /\ cmd \in {N_help, N_morehelp}
    /\ command' = cmd
    /\ functions' = <<>>
    /\ lookup' = "help"
    /\ executed' = N_help
    /\ opened' = "no"
    /\ db_opened' = FALSE
    /\ unc_before' = db_uncommitted
    /\ ret' = 0
    /\ raised' = FALSE
    /\ committed' = FALSE
    /\ UNCHANGED <<tracker_home, db, db_uncommitted>>
    /\ UNCHANGED <<rtvars, xvars>>

RunUnresolved(cmd) ==
    LET r == Resolve[cmd] IN
    /\ cmd \notin {N_help, N_morehelp}
    /\ r.err \/ IsAmbiguous(r.keys)
    /\ command' = cmd
    /\ functions' = r.keys
    /\ lookup' = IF r.err THEN "KeyError" ELSE "found"
    /\ executed' = NoCmd
    /\ opened' = "no"
    /\ db_opened' = FALSE
    /\ unc_before' = db_uncommitted
    /\ ret' = 1
    /\ raised' = FALSE
    /\ committed' = FALSE
    /\ UNCHANGED <<tracker_home, db, db_uncommitted>>
    /\ UNCHANGED <<rtvars, xvars>>

\* initialise, install and templates run before the tracker is opened
RunEarly(cmd, out) ==
    LET r == Resolve[cmd]
        name == r.keys[1]
    IN
    /\ cmd \notin {N_help, N_morehelp}
    /\ ~r.err /\ ~IsAmbiguous(r.keys)
    /\ name \in {N_initialise, N_install, N_templates}
    /\ out \in {"ok", "UsageError", "Exception"}
    /\ command' = cmd
    /\ functions' = r.keys
    /\ lookup' = "found"
    /\ tracker_home' = TRUE
    /\ executed' = name
    /\ opened' = "no"
    /\ db_opened' = FALSE
    /\ unc_before' = db_uncommitted
    /\ raised' = (out = "Exception" \/ (out = "UsageError" /\ name = N_templates))
    /\ ret' = IF raised' THEN -1 ELSE RetAfter(out)
    /\ committed' = FALSE
    /\ UNCHANGED <<db, db_uncommitted>>
    /\ UNCHANGED <<rtvars, xvars>>

RunNoTracker(cmd, trk) ==
    LET r == Resolve[cmd]
        name == r.keys[1]
    IN
    /\ cmd \notin {N_help, N_morehelp}
    /\ ~r.err /\ ~IsAmbiguous(r.keys)
    /\ name \notin {N_initialise, N_install, N_templates}
    /\ trk \in TrackerOutcomes \ {"ok"}
    /\ command' = cmd
    /\ functions' = r.keys
    /\ lookup' = "found"
    /\ tracker_home' = (trk = "ParsingOptionError")
    /\ executed' = NoCmd
    /\ opened' = trk
    /\ db_opened' = FALSE
    /\ unc_before' = db_uncommitted
    /\ ret' = 1
    /\ raised' = FALSE
    /\ committed' = FALSE
    /\ UNCHANGED <<db, db_uncommitted>>
    /\ UNCHANGED <<rtvars, xvars>>

RunFunction(cmd, out, upd) ==
    LET r == Resolve[cmd]
        name == r.keys[1]
    IN
    /\ cmd \notin {N_help, N_morehelp}
    /\ ~r.err /\ ~IsAmbiguous(r.keys)
    /\ name \notin {N_initialise, N_install, N_templates}
    /\ out \in FunctionOutcomes
    /\ out = "ret1" => name \in CanReturn1
    /\ command' = cmd
    /\ functions' = r.keys
    /\ lookup' = "found"
    /\ tracker_home' = TRUE
    /\ db' = TRUE
    /\ executed' = name
    /\ opened' = "ok"
    /\ db_opened' = OpensDb(db)
    /\ unc_before' = db_uncommitted
    /\ db_uncommitted' = FlagAfter(name, out, upd, db_uncommitted)
    /\ ret' = RetAfter(out)
    /\ raised' = FALSE
    /\ committed' = CallsCommit(name)
    /\ UNCHANGED <<rtvars, xvars>>

run_command ==
    \E cmd \in Typed :
        \/ RunHelp(cmd)
        \/ RunUnresolved(cmd)
        \/ \E out \in FunctionOutcomes : RunEarly(cmd, out)
        \/ \E trk \in TrackerOutcomes : RunNoTracker(cmd, trk)
        \/ \E out \in FunctionOutcomes, upd \in BOOLEAN :
              RunFunction(cmd, out, upd)

---------------------------------------------------------------------------
(* The schema the round-trip engine is handed: a keyed class and a class   *)
(* with attachments.  Property names and values are texts.                 *)

\* how many nodes the model creates in class user and in class msg
MaxUsers == 2
MaxMsgs == 1

MaxNodes(c) == IF c = "user" THEN MaxUsers ELSE MaxMsgs

\* self.db.classes
classes == <<"user", "msg">>

F_id       == <<"i","d">>
F_username == <<"u","s","e","r","n","a","m","e">>
F_content  == <<"c","o","n","t","e","n","t">>
F_retired  == <<"i","s"," ","r","e","t","i","r","e","d">>

\* cl.export_propnames(): the class's property names, sorted
export_propnames(c) ==
    IF c = "user" THEN <<F_id, F_username>> ELSE <<F_content, F_id>>

\* cl.getkey(): the key property (<<>>: the class has none)
getkey(c) == IF c = "user" THEN F_username ELSE <<>>

\* hasattr(cl, 'export_files') / hasattr(cl, 'import_files')
HasFiles(c) == c = "msg"

\* the value None of an unset property
NoVal == <<"None">>

ShortVal == <<":">>
LongVal  == <<"a","a","a","a","a","a","a","a","\"">>

\* a value whose repr is exactly as long as CSV_FIELD_SIZE
EdgeVal  == <<"a","a","a","a","a","a","a","\"">>

\* the values the model stores in the username / content property
Vals(c) == IF c = "user" THEN {ShortVal, LongVal} ELSE {EdgeVal}

A_create  == <<"c","r","e","a","t","e">>
A_retired == <<"r","e","t","i","r","e","d">>

\* the configured CSV_FIELD_SIZE of the trackers: it admits the header names
\* and the short values, and not the repr of LongVal
CSV_FIELD_SIZE == Len(F_retired)

---------------------------------------------------------------------------
(* repr_export / eval_import and int / str of identifiers.                 *)

Digits == <<"0","1","2","3","4","5","6","7","8","9">>

RECURSIVE IntToStr(_)
\* str(n), n >= 0
IntToStr(n) ==
    IF n < 10 THEN <<Digits[n + 1]>>
    ELSE IntToStr(n \div 10) \o <<Digits[(n % 10) + 1]>>

IsDigits(t) == Len(t) > 0 /\ \A i \in 1..Len(t) : t[i] \in Range(Digits)

DigitVal(ch) == (CHOOSE i \in 1..10 : Digits[i] = ch) - 1

RECURSIVE StrToInt(_)
\* int(t) for a text of decimal digits
StrToInt(t) ==
    IF Len(t) = 1 THEN DigitVal(t[1])
    ELSE 10 * StrToInt(SubSeq(t, 1, Len(t) - 1)) + DigitVal(t[Len(t)])

\* repr_export(value): Python's repr of None and of a str holding no
\* apostrophe, backslash or control character
repr_export(v) ==
    IF v = NoVal THEN <<"N","o","n","e">>
    ELSE <<"'">> \o v \o <<"'">>

\* the text is the repr of a str
IsStrRepr(t) == Len(t) >= 2 /\ t[1] = "'" /\ t[Len(t)] = "'"

\* eval_import(text) for the repr of None or of a str
eval_import(t) ==
    IF t = <<"N","o","n","e">> THEN NoVal
    ELSE SubSeq(t, 2, Len(t) - 1)

---------------------------------------------------------------------------
(* Python's csv module with the dialect of admin.py:1391-1392 (csv.excel   *)
(* with delimiter ':'; quotechar '"', doublequote, QUOTE_MINIMAL).  A file *)
(* is a sequence of lines and a line a text without its terminator: no     *)
(* repr holds a line break.                                                *)

Delimiter == ":"
QuoteChar == "\""

RECURSIVE Doubled(_)
\* every quote character doubled
Doubled(f) ==
    IF f = <<>> THEN <<>>
    ELSE (IF Head(f) = QuoteChar THEN <<QuoteChar, QuoteChar>> ELSE <<Head(f)>>)
         \o Doubled(Tail(f))

\* QUOTE_MINIMAL: the field holds the delimiter or the quote character
NeedsQuotes(f) == \E i \in 1..Len(f) : f[i] \in {Delimiter, QuoteChar}

CsvField(f) ==
    IF NeedsQuotes(f) THEN <<QuoteChar>> \o Doubled(f) \o <<QuoteChar>> ELSE f

RECURSIVE JoinFields(_)
JoinFields(fs) ==
    IF Len(fs) = 1 THEN CsvField(fs[1])
    ELSE CsvField(fs[1]) \o <<Delimiter>> \o JoinFields(Tail(fs))

\* writer.writerow(fields): the line written
writerow(fields) ==
    IF fields = <<>> THEN <<>>
    ELSE IF fields = << <<>> >> THEN <<QuoteChar, QuoteChar>>
    ELSE JoinFields(fields)

\* One step of the reader's automaton: the character ch is read in state
\* p = [state, field, fields, err].  limit is csv.field_size_limit(): adding
\* a character to a field that already holds limit characters raises
\* csv.Error.
ReadChar(ch, p, limit) ==
    LET full     == Len(p.field) >= limit
        add(st)  == IF full THEN [p EXCEPT !.err = TRUE]
                    ELSE [p EXCEPT !.state = st, !.field = Append(@, ch)]
        save     == [p EXCEPT !.state = "start_field", !.field = <<>>,
                              !.fields = Append(@, p.field)]
    IN  CASE p.state \in {"start_record", "start_field"} ->
               IF ch = QuoteChar THEN [p EXCEPT !.state = "in_quoted"]
               ELSE IF ch = Delimiter THEN save
               ELSE add("in_field")
          [] p.state = "in_field" ->
               IF ch = Delimiter THEN save ELSE add("in_field")
          [] p.state = "in_quoted" ->
               IF ch = QuoteChar THEN [p EXCEPT !.state = "quote_in_quoted"]
               ELSE add("in_quoted")
          [] OTHER ->  \* quote_in_quoted
               IF ch = QuoteChar THEN add("in_quoted")
               ELSE IF ch = Delimiter THEN save
               ELSE add("in_field")

RECURSIVE ReadChars(_, _, _)
\* the automaton run over the rest of a line
ReadChars(line, p, limit) ==
    IF line = <<>> \/ p.err THEN p
    ELSE ReadChars(Tail(line), ReadChar(Head(line), p, limit), limit)

\* the row the reader returns at the end of the line
EndOfLine(p) ==
    [err |-> p.err,
     fields |-> CASE p.state = "start_record" -> <<>>
                  [] p.state = "start_field"  -> Append(p.fields, <<>>)
                  [] OTHER                    -> Append(p.fields, p.field)]

\* one row of csv.reader(f, colon_separated)
readrow(line, limit) ==
    EndOfLine(ReadChars(line, [state |-> "start_record", field |-> <<>>,
                               fields |-> <<>>, err |-> FALSE], limit))

---------------------------------------------------------------------------
(* The storage engine's class interface, as far as do_export and do_import *)
(* use it.  st is the store (class -> id -> node), jr the journals         *)
(* (class -> id -> actions).                                               *)

Max2(a, b) == IF a >= b THEN a ELSE b

RECURSIVE SumLen(_)
\* sum([len(x) for x in seq])
SumLen(seq) == IF seq = <<>> THEN 0 ELSE Len(Head(seq)) + SumLen(Tail(seq))

RECURSIVE MaxLen(_)
\* the longest element of seq
MaxLen(seq) == IF seq = <<>> THEN 0 ELSE Max2(Len(Head(seq)), MaxLen(Tail(seq)))

\* the one property of a class besides id
ValueProp(c) == IF c = "user" THEN F_username ELSE F_content

Node(v, r, b) == [val |-> v, retired |-> r, blob |-> b]

EmptyStore == [c \in Range(classes) |-> <<>>]

\* cl.get(nodeid, prop) / node[prop]
get(st, c, i, prop) == IF prop = F_id THEN IntToStr(i) ELSE st[c][i].val

\* cl.is_retired(nodeid)
is_retired(st, c, i) == st[c][i].retired

\* cl.export_list(propnames, nodeid): the repr of every property, then the
\* retired flag (1 or 0)
export_list(st, c, propnames, i) ==
    [k \in 1..Len(propnames) |-> repr_export(get(st, c, i, propnames[k]))]
    \o <<IntToStr(IF is_retired(st, c, i) THEN 1 ELSE 0)>>

RECURSIVE JournalRows(_, _, _)
\* cl.export_journals(): one row per journal record, node by node
JournalRows(jr, c, ids) ==
    IF ids = <<>> THEN <<>>
    ELSE [k \in 1..Len(jr[c][Head(ids)]) |->
             <<repr_export(IntToStr(Head(ids))), repr_export(jr[c][Head(ids)][k])>>]
         \o JournalRows(jr, c, Tail(ids))

\* the sequences that list every element of the finite set S once
Orders(S) == {o \in [1..Cardinality(S) -> S] : Range(o) = S}

\* the identifiers of S in increasing order
RECURSIVE Ascending(_)
Ascending(S) ==
    IF S = {} THEN <<>>
    ELSE LET m == CHOOSE x \in S : \A y \in S : x <= y
         IN  <<m>> \o Ascending(S \ {m})

\* cl.create(**props): the new node's id is the class's counter
create(st, cn, jr, c, v) ==
    LET i == cn[c] IN
    [store   |-> [st EXCEPT ![c] = (i :> Node(v, FALSE, HasFiles(c))) @@ @],
     counter |-> [cn EXCEPT ![c] = i + 1],
     journal |-> [jr EXCEPT ![c] = (i :> <<A_create>>) @@ @]]

\* a live node of a keyed class already has this key value
KeyTaken(st, c, v) ==
    /\ getkey(c) # <<>>
    /\ \E i \in DOMAIN st[c] : ~st[c][i].retired /\ st[c][i].val = v

---------------------------------------------------------------------------
(* AdminTool.do_export(args, export_files).                                *)

\* mutant: the retired flag is not negated, so live nodes sort first
keysort_plain(st, c, i) == <<get(st, c, i, getkey(c)), is_retired(st, c, i)>>

\* keysort = lambda i: (cl.get(i, classkey), not cl.is_retired(i))
keysort(st, c, i) == <<get(st, c, i, getkey(c)), ~is_retired(st, c, i)>>

\* a < b for the tuples (str, bool); False sorts before True
TupleLess(a, b) == StrLess(a[1], b[1]) \/ (a[1] = b[1] /\ ~a[2] /\ b[2])

RECURSIVE InsertByKey(_, _, _, _)
\* x put behind every element that does not sort after it (a stable sort)
InsertByKey(st, c, sorted, x) ==
    IF sorted = <<>> THEN <<x>>
    ELSE IF TupleLess(keysort(st, c, x), keysort(st, c, Head(sorted)))
         THEN <<x>> \o sorted
         ELSE <<Head(sorted)>> \o InsertByKey(st, c, Tail(sorted), x)

RECURSIVE SortByKey(_, _, _, _)
\* all_nodes.sort(key=keysort): sorted holds the elements placed so far
SortByKey(st, c, sorted, nodes) ==
    IF nodes = <<>> THEN sorted
    ELSE SortByKey(st, c, InsertByKey(st, c, sorted, Head(nodes)), Tail(nodes))

\* all_nodes as the row loop sees it
all_nodes(st, c, order) ==
    IF getkey(c) # <<>> THEN SortByKey(st, c, <<>>, order) ELSE order

\* mutant: the attachments are written whatever the command
ExportsFiles_always(export_files, c) == HasFiles(c)

\* if export_files and hasattr(cl, 'export_files')
ExportsFiles(export_files, c) == export_files /\ HasFiles(c)

\* One pass of the row loop (admin.py:1433-1453).  acc is the state of the
\* export: the two files of the class, the attachments written, the calls
\* made, max_len and the exception raised, if any.
ExportRow(st, c, propnames, nodeid, export_files, acc) ==
    LET exp    == export_list(st, c, propnames, nodeid)
        reprs  == [k \in 1..Len(propnames) |->
                      repr_export(get(st, c, nodeid, propnames[k]))]
        lensum == SumLen(reprs)
        d      == SumLen(exp) - lensum
        ll     == MaxLen(reprs) + d
        files  == ExportsFiles(export_files, c)
    IN  IF ~(d > 0) THEN [acc EXCEPT !.err = "AssertionError"]
        ELSE [acc EXCEPT
                !.max_len = Max2(@, ll),
                !.lines   = Append(@, writerow(exp)),
                !.blobs   = IF files /\ st[c][nodeid].blob
                            THEN @ \cup {<<c, nodeid>>} ELSE @,
                !.calls   = @ \o <<<<"writerow", c, nodeid>>>>
                              \o (IF files THEN <<<<"export_files", c, nodeid>>>>
                                  ELSE <<>>)]

RECURSIVE ExportRows(_, _, _, _, _, _)
ExportRows(st, c, propnames, nodes, export_files, acc) ==
    IF nodes = <<>> \/ acc.err # "" THEN acc
    ELSE ExportRows(st, c, propnames, Tail(nodes), export_files,
                    ExportRow(st, c, propnames, Head(nodes), export_files, acc))

\* The body of the class loop (admin.py:1402-1463) for class c; order is the
\* list cl.getnodeids() returned.  out is the state of the whole export.
ExportClass(st, jr, c, order, export_files, out) ==
    LET propnames == export_propnames(c)
        fields    == Append(propnames, F_retired)
        acc0      == [lines |-> <<writerow(fields)>>, blobs |-> out.blobs,
                      calls |-> out.calls, max_len |-> out.max_len, err |-> ""]
        acc       == ExportRows(st, c, propnames, all_nodes(st, c, order),
                                export_files, acc0)
        jlines    == [k \in 1..Len(JournalRows(jr, c, order)) |->
                         writerow(JournalRows(jr, c, order)[k])]
    IN  IF acc.err # ""
        THEN [out EXCEPT !.csv = (c :> acc.lines) @@ @, !.blobs = acc.blobs,
                         !.calls = acc.calls, !.max_len = acc.max_len,
                         !.err = acc.err]
        ELSE [out EXCEPT !.csv = (c :> acc.lines) @@ @,
                         !.journals = (c :> jlines) @@ @,
                         !.blobs = acc.blobs,
                         !.calls = Append(acc.calls, <<"export_journals", c, 0>>),
                         !.max_len = acc.max_len]

RECURSIVE ExportClasses(_, _, _, _, _, _)
ExportClasses(st, jr, cs, orders, export_files, out) ==
    IF cs = <<>> \/ out.err # "" THEN out
    ELSE ExportClasses(st, jr, Tail(cs), orders, export_files,
                       ExportClass(st, jr, Head(cs), orders[Head(cs)],
                                   export_files, out))

\* mutant: the warning is printed when the bound reaches the limit
Warns_reached(max_len, limit) == max_len >= limit

\* the warning of admin.py:1464-1466 is printed
Warns(max_len, limit) == max_len > limit

\* do_export with one argument, the directory: every class is exported.
\* The result holds the directory and what the command did.
do_export(st, jr, d, orders, export_files, limit) ==
    LET out0 == [csv |-> d.csv, journals |-> d.journals, blobs |-> d.blobs,
                 calls |-> <<>>, max_len |-> limit, err |-> ""]
        out  == ExportClasses(st, jr, classes, orders, export_files, out0)
    IN  [dir    |-> [csv |-> out.csv, journals |-> out.journals,
                     blobs |-> out.blobs],
         calls  |-> out.calls,
         max_len |-> out.max_len,
         warned |-> out.err = "" /\ Warns(out.max_len, limit),
         err    |-> out.err]

---------------------------------------------------------------------------
(* AdminTool.do_import(args, import_files).                                *)

\* One pass of the column loop of cl.import_list(propnames, proplist), for
\* column i: d collects the id, the retired flag and the value of the node.
ImportProp(c, propnames, proplist, i, d) ==
    IF i > Len(proplist) THEN [d EXCEPT !.err = "IndexError"]
    ELSE
        LET propname == propnames[i]
            text     == proplist[i]
        IN  IF propname = F_id THEN [d EXCEPT !.newid = eval_import(text)]
            ELSE IF propname = F_retired
            THEN IF IsDigits(text)
                 THEN [d EXCEPT !.retired = StrToInt(text) # 0]
                 ELSE [d EXCEPT !.err = "ValueError"]
            ELSE IF eval_import(text) = NoVal THEN d
            ELSE IF propname \notin Range(export_propnames(c))
            THEN [d EXCEPT !.err = "KeyError"]
            ELSE [d EXCEPT !.val = eval_import(text)]

RECURSIVE ImportProps(_, _, _, _, _)
\* for i in range(len(propnames))
ImportProps(c, propnames, proplist, i, d) ==
    IF i > Len(propnames) \/ d.err # "" THEN d
    ELSE ImportProps(c, propnames, proplist, i + 1,
                     ImportProp(c, propnames, proplist, i, d))

\* cl.import_list(propnames, proplist): the node is stored under the id of
\* the row, replacing a node that has it; without an id column the class's
\* counter gives the id.  Extra fields of the row are not looked at.
import_list(st, cn, c, propnames, proplist) ==
    LET d0 == [newid |-> NoVal, retired |-> FALSE, val |-> NoVal, err |-> ""]
        d  == ImportProps(c, propnames, proplist, 1, d0)
        idtext == IF d.newid = NoVal THEN IntToStr(cn[c]) ELSE d.newid
        i  == StrToInt(idtext)
        old == IF i \in DOMAIN st[c] THEN st[c][i].blob ELSE FALSE
    IN  IF d.err # "" THEN [err |-> d.err, store |-> st, counter |-> cn,
                            nodeid |-> <<>>]
        ELSE IF ~IsDigits(idtext)
        THEN [err |-> "ValueError", store |-> st, counter |-> cn, nodeid |-> <<>>]
        ELSE [err |-> "",
              store |-> [st EXCEPT ![c] = (i :> Node(d.val, d.retired, old)) @@ @],
              counter |-> IF d.newid = NoVal THEN [cn EXCEPT ![c] = @ + 1] ELSE cn,
              nodeid |-> idtext]

\* mutant: the highest id is taken to be the id of the last row
NextMaxId_last(maxid, nodeid) == StrToInt(nodeid)

\* maxid = max(maxid, int(nodeid))
NextMaxId(maxid, nodeid) == Max2(maxid, StrToInt(nodeid))

\* mutant: the counter is set two above the highest id
NewCounter_twice(maxid) == maxid + 2

\* mutant: the counter is set to the highest id itself
NewCounter_same(maxid) == maxid

\* str(maxid+1), as db.setid stores it
NewCounter(maxid) == maxid + 1

\* The row loop behind the call of import_list (admin.py:1541-1544); il is
\* what the call returned or raised.
ImportedRow(c, import_files, d, acc, il) ==
    LET files == HasFiles(c) /\ import_files IN
    IF il.err # "" THEN [acc EXCEPT !.err = il.err]
    ELSE [acc EXCEPT
            !.store = IF files /\ <<c, StrToInt(il.nodeid)>> \in d.blobs
                      THEN [il.store EXCEPT ![c][StrToInt(il.nodeid)].blob = TRUE]
                      ELSE il.store,
            !.counter = il.counter,
            !.calls = @ \o <<<<"import_list", c, StrToInt(il.nodeid)>>>>
                        \o (IF files
                            THEN <<<<"import_files", c, StrToInt(il.nodeid)>>>>
                            ELSE <<>>),
            !.maxid = NextMaxId(@, il.nodeid)]

\* mutant: no row is taken for the header
IsHeader_never(has_props) == FALSE

\* if file_props is None: the row is the header
IsHeader(has_props) == ~has_props

\* One pass of the row loop (admin.py:1531-1544), for one line of a class
\* file.  acc holds the store, the counter, the calls, file_props
\* (has_props: it is no longer None), maxid and the exception raised, if any.
ImportRow(c, line, limit, import_files, d, acc) ==
    LET r == readrow(line, limit) IN
    IF r.err THEN [acc EXCEPT !.err = "csv.Error"]
    ELSE IF IsHeader(acc.has_props)
    THEN [acc EXCEPT !.has_props = TRUE, !.file_props = r.fields]
    ELSE ImportedRow(c, import_files, d, acc,
                     import_list(acc.store, acc.counter, c, acc.file_props,
                                 r.fields))

RECURSIVE ImportRows(_, _, _, _, _, _)
\* for n, r in enumerate(reader)
ImportRows(c, lines, limit, import_files, d, acc) ==
    IF lines = <<>> \/ acc.err # "" THEN acc
    ELSE ImportRows(c, Tail(lines), limit, import_files, d,
                    ImportRow(c, Head(lines), limit, import_files, d, acc))

RECURSIVE JournalOf(_, _)
\* the actions the journal rows give for node idtext, in file order
JournalOf(rows, idtext) ==
    IF rows = <<>> THEN <<>>
    ELSE (IF eval_import(Head(rows)[1]) = idtext
          THEN <<eval_import(Head(rows)[2])>> ELSE <<>>)
         \o JournalOf(Tail(rows), idtext)

RECURSIVE ReadRows(_, _)
\* every row of a file, or the reader's error
ReadRows(lines, limit) ==
    IF lines = <<>> THEN [err |-> FALSE, rows |-> <<>>]
    ELSE LET r == readrow(Head(lines), limit)
             rest == ReadRows(Tail(lines), limit)
         IN  IF r.err \/ rest.err THEN [err |-> TRUE, rows |-> <<>>]
             ELSE [err |-> FALSE, rows |-> <<r.fields>> \o rest.rows]

\* cl.import_journals(reader): the journal of every node the file names is
\* set to the file's records for it
import_journals(jr, c, rows) ==
    LET ids == {StrToInt(eval_import(rows[k][1])) : k \in 1..Len(rows)}
    IN  [jr EXCEPT ![c] =
            [i \in ids \cup DOMAIN jr[c] |->
                IF i \in ids THEN JournalOf(rows, IntToStr(i)) ELSE jr[c][i]]]

\* the first value of maxid
FirstMaxId == 1

\* The file loop behind the row loop (admin.py:1546-1558): the journals of
\* class c are imported and its counter is set.  acc is the state the row
\* loop ended in.
ImportJournals(c, d, limit, out, acc) ==
    LET part == [out EXCEPT !.store = acc.store, !.counter = acc.counter,
                            !.calls = acc.calls]
        jrows == IF c \in DOMAIN d.journals
                 THEN ReadRows(d.journals[c], limit)
                 ELSE [err |-> TRUE, rows |-> <<>>]
    IN  IF acc.err # "" THEN [part EXCEPT !.err = acc.err]
        ELSE IF c \notin DOMAIN d.journals THEN [part EXCEPT !.err = "IOError"]
        ELSE IF jrows.err THEN [part EXCEPT !.err = "csv.Error"]
        ELSE [part EXCEPT
                !.journal = import_journals(@, c, jrows.rows),
                !.counter = [@ EXCEPT ![c] = NewCounter(acc.maxid)],
                !.calls = @ \o <<<<"import_journals", c, 0>>,
                                 <<"setid", c, NewCounter(acc.maxid)>>>>]

\* The body of the file loop (admin.py:1517-1558) for the directory entry
\* name = [base, journals, ext].
ImportFile(name, import_files, d, limit, out) ==
    IF name.ext # ".csv" \/ name.journals THEN out
    ELSE IF name.base \notin Range(classes) THEN [out EXCEPT !.err = "UsageError"]
    ELSE ImportJournals(name.base, d, limit, out,
             ImportRows(name.base, d.csv[name.base], limit, import_files, d,
                        [store |-> out.store, counter |-> out.counter,
                         calls |-> out.calls, has_props |-> FALSE,
                         file_props |-> <<>>, maxid |-> FirstMaxId,
                         err |-> ""]))

RECURSIVE ImportFiles(_, _, _, _, _)
ImportFiles(listing, import_files, d, limit, out) ==
    IF listing = <<>> \/ out.err # "" THEN out
    ELSE ImportFiles(Tail(listing), import_files, d, limit,
                     ImportFile(Head(listing), import_files, d, limit, out))

\* do_import with one argument, the directory d; listing is what
\* os.listdir(dir) returned.
do_import(st, cn, jr, d, listing, import_files, limit) ==
    ImportFiles(listing, import_files, d, limit,
                [store |-> st, counter |-> cn, journal |-> jr,
                 calls |-> <<>>, err |-> ""])

\* os.listdir(dir): the journal files, then the class files in the order
\* datafiles (the order among class files is all that the loop depends on)
Listing(d, datafiles) ==
    [k \in 1..Cardinality(DOMAIN d.journals) |->
        [base |-> SeqFilter(classes, DOMAIN d.journals)[k],
         journals |-> TRUE, ext |-> ".csv"]]
    \o (IF d.blobs # {} THEN <<[base |-> "files", journals |-> FALSE, ext |-> ""]>>
        ELSE <<>>)
    \o [k \in 1..Len(datafiles) |->
           [base |-> datafiles[k], journals |-> FALSE, ext |-> ".csv"]]

---------------------------------------------------------------------------
(* Edits of the directory between an export and an import: the directory   *)
(* is an input of do_import, and the files in it need not be what          *)
(* do_export wrote for the importing tracker's schema.                     *)

F_status == <<"s","t","a","t","u","s">>

\* the csv module's own field_size_limit, which no line of the model reaches
NoLimit == 128 * 1024

\* seq without its element number k
DropAt(seq, k) == SubSeq(seq, 1, k - 1) \o SubSeq(seq, k + 1, Len(seq))

\* the column of the class's value property
ValueColumn(c) ==
    CHOOSE k \in 1..Len(export_propnames(c)) : export_propnames(c)[k] = ValueProp(c)

\* the file as a tracker without the class's value property exports it
WithoutColumn(c, lines) ==
    [k \in 1..Len(lines) |->
        writerow(DropAt(readrow(lines[k], NoLimit).fields, ValueColumn(c)))]

\* the file with the value property's column named status
WithRenamedColumn(c, lines) ==
    [k \in 1..Len(lines) |->
        IF k = 1
        THEN writerow([readrow(lines[1], NoLimit).fields
                          EXCEPT ![ValueColumn(c)] = F_status])
        ELSE lines[k]]

\* line k with one more field
WithLongerRow(lines, k) ==
    [lines EXCEPT ![k] = writerow(Append(readrow(lines[k], NoLimit).fields,
                                         repr_export(<<"a">>)))]

\* line k without its last field
WithShorterRow(lines, k) ==
    [lines EXCEPT ![k] =
        writerow(DropAt(readrow(lines[k], NoLimit).fields,
                        Len(readrow(lines[k], NoLimit).fields)))]

\* the function f without the argument a
Without(f, a) == [x \in DOMAIN f \ {a} |-> f[x]]

---------------------------------------------------------------------------
(* The round trip as a state machine: the administrator works in a         *)
(* tracker (create, retire), exports it, and imports the directory either  *)
(* into the same tracker, after more work, or into a fresh tracker with    *)
(* equivalent, empty classes, possibly after the files were edited.        *)
(* A behaviour holds at most one export and one import command; a command  *)
(* given without its argument ends it.  cl.getnodeids() may list a keyed   *)
(* class in any order; the class without a key is listed by identifier.    *)

SessionFrame ==
    UNCHANGED <<tracker_home, db, command, functions, lookup, executed,
                opened, db_opened, unc_before, ret, raised, committed,
                xvars>>

IdleRt == [cmd |-> "none", ret |-> 0, err |-> "", calls |-> <<>>,
           warned |-> FALSE, max_len |-> 0]

\* what run_command returns for an exception the command raised
RetOf(err) == IF err = "" THEN 0 ELSE 1

Create(c, v) ==
    /\ phase \in {"work", "exported"}
    /\ counter[c] <= MaxNodes(c)
    /\ ~KeyTaken(store, c, v)
    /\ LET r == create(store, counter, journal, c, v) IN
         /\ store' = r.store
         /\ counter' = r.counter
         /\ journal' = r.journal
    /\ db_uncommitted' = TRUE
    /\ UNCHANGED <<csv_field_size, dir, rt, snap, pre, edited, phase>>
    /\ SessionFrame

Retire(c, i) ==
    /\ phase = "work"
    /\ i \in DOMAIN store[c]
    /\ ~store[c][i].retired
    /\ store' = [store EXCEPT ![c][i].retired = TRUE]
    /\ journal' = [journal EXCEPT ![c][i] = Append(@, A_retired)]
    /\ db_uncommitted' = TRUE
    /\ UNCHANGED <<counter, csv_field_size, dir, rt, snap, pre, edited, phase>>
    /\ SessionFrame

\* export (export_files) or exporttables, with no argument
ExportUsage(export_files) ==
    /\ phase = "work"
    /\ rt' = [IdleRt EXCEPT
                !.cmd = IF export_files THEN "export" ELSE "exporttables",
                !.ret = 1, !.err = "UsageError"]
    /\ phase' = "done"
    /\ UNCHANGED <<db_uncommitted, store, counter, journal, csv_field_size,
                   dir, snap, pre, edited>>
    /\ SessionFrame

\* export (export_files) or exporttables of every class into the directory
Export(export_files, orders) ==
    /\ phase = "work"
    /\ LET res == do_export(store, journal, dir, orders, export_files,
                            csv_field_size) IN
         /\ dir' = res.dir
         /\ rt' = [cmd |-> IF export_files THEN "export" ELSE "exporttables",
                   ret |-> RetOf(res.err), err |-> res.err,
                   calls |-> res.calls, warned |-> res.warned,
                   max_len |-> res.max_len]
    /\ snap' = [taken |-> TRUE, store |-> store, journal |-> journal]
    /\ phase' = "exported"
    /\ UNCHANGED <<db_uncommitted, store, counter, journal, csv_field_size,
                   pre, edited>>
    /\ SessionFrame

\* the administrator turns to a tracker with the same schema and no nodes
NewTracker ==
    /\ phase = "exported"
    /\ store' = EmptyStore
    /\ journal' = EmptyStore
    /\ counter' = [c \in Range(classes) |-> 1]
    /\ db_uncommitted' = FALSE
    /\ phase' = "fresh"
    /\ UNCHANGED <<csv_field_size, dir, rt, snap, pre, edited>>
    /\ SessionFrame

EditFrame ==
    /\ edited' = TRUE
    /\ UNCHANGED <<db_uncommitted, store, counter, journal, csv_field_size,
                   rt, snap, pre, phase>>
    /\ SessionFrame

EditDropColumn(c) ==
    /\ phase = "fresh" /\ ~edited /\ c \in DOMAIN dir.csv
    /\ dir' = [dir EXCEPT !.csv[c] = WithoutColumn(c, @)]
    /\ EditFrame

EditRenameColumn(c) ==
    /\ phase = "fresh" /\ ~edited /\ c \in DOMAIN dir.csv
    /\ dir' = [dir EXCEPT !.csv[c] = WithRenamedColumn(c, @)]
    /\ EditFrame

EditLongerRow(c, k) ==
    /\ phase = "fresh" /\ ~edited /\ c \in DOMAIN dir.csv
    /\ k \in 2..Len(dir.csv[c])
    /\ dir' = [dir EXCEPT !.csv[c] = WithLongerRow(@, k)]
    /\ EditFrame

EditShorterRow(c, k) ==
    /\ phase = "fresh" /\ ~edited /\ c \in DOMAIN dir.csv
    /\ k \in 2..Len(dir.csv[c])
    /\ dir' = [dir EXCEPT !.csv[c] = WithShorterRow(@, k)]
    /\ EditFrame

EditRemoveJournal(c) ==
    /\ phase = "fresh" /\ ~edited /\ c \in DOMAIN dir.journals
    /\ dir' = [dir EXCEPT !.journals = Without(@, c)]
    /\ EditFrame

\* import (import_files) or importtables, with no argument
ImportUsage(import_files) ==
    /\ phase = "exported"
    /\ rt' = [IdleRt EXCEPT
                !.cmd = IF import_files THEN "import" ELSE "importtables",
                !.ret = 1, !.err = "UsageError"]
    /\ phase' = "done"
    /\ UNCHANGED <<db_uncommitted, store, counter, journal, csv_field_size,
                   dir, snap, pre, edited>>
    /\ SessionFrame

\* the tracker and the command's record after do_import, whose result is res
Imported(import_files, res) ==
    /\ store' = res.store
    /\ counter' = res.counter
    /\ journal' = res.journal
    /\ rt' = [IdleRt EXCEPT
                !.cmd = IF import_files THEN "import" ELSE "importtables",
                !.ret = RetOf(res.err), !.err = res.err,
                !.calls = res.calls]
    /\ db_uncommitted' = IF res.err = "" THEN TRUE ELSE db_uncommitted

\* import (import_files) or importtables of the directory
Import(import_files, datafiles) ==
    /\ phase \in {"exported", "fresh"}
    /\ Imported(import_files,
                do_import(store, counter, journal, dir,
                          Listing(dir, datafiles), import_files,
                          csv_field_size))
    /\ pre' = [store |-> store, counter |-> counter]
    /\ phase' = "done"
    /\ UNCHANGED <<csv_field_size, dir, snap, edited>>
    /\ SessionFrame

NextRT ==
    \/ \E c \in Range(classes) : \E v \in Vals(c) : Create(c, v)
    \/ \E c \in Range(classes) : \E i \in 1..MaxNodes(c) : Retire(c, i)
    \/ \E f \in BOOLEAN : ExportUsage(f)
    \/ \E f \in BOOLEAN : \E ou \in Orders(DOMAIN store["user"]) :
            Export(f, [c \in Range(classes) |->
                          IF c = "user" THEN ou
                          ELSE Ascending(DOMAIN store[c])])
    \/ NewTracker
    \/ \E c \in Range(classes) : EditDropColumn(c)
    \/ \E c \in Range(classes) : EditRenameColumn(c)
    \/ \E c \in Range(classes) : \E k \in 2..(MaxUsers + MaxMsgs + 1) : EditLongerRow(c, k)
    \/ \E c \in Range(classes) : \E k \in 2..(MaxUsers + MaxMsgs + 1) : EditShorterRow(c, k)
    \/ \E c \in Range(classes) : EditRemoveJournal(c)
    \/ \E f \in BOOLEAN : ImportUsage(f)
    \/ \E f \in BOOLEAN : \E datafiles \in Orders(DOMAIN dir.csv) :
         Import(f, datafiles)

---------------------------------------------------------------------------
(* AdminTool.props_from_args(args): the arguments prop=value as a dict,    *)
(* here the sequence of its items [key, value] in insertion order.         *)

Equals == "="
Dot    == "."
Comma  == ","

\* text.find(ch) + 1: where ch stands first in text (0: nowhere)
IndexOf(text, ch) ==
    IF \E i \in 1..Len(text) : text[i] = ch
    THEN CHOOSE i \in 1..Len(text) :
             text[i] = ch /\ \A j \in 1..(i - 1) : text[j] # ch
    ELSE 0

\* mutant: the text is split at its last ch
SplitFirst_last(text, ch) ==
    IF IndexOf(text, ch) = 0 THEN <<text>>
    ELSE LET i == CHOOSE i \in 1..Len(text) :
                      text[i] = ch /\ \A j \in (i + 1)..Len(text) : text[j] # ch
         IN  <<SubSeq(text, 1, i - 1), SubSeq(text, i + 1, Len(text))>>

\* text.split(ch, 1)
SplitFirst(text, ch) ==
    IF IndexOf(text, ch) = 0 THEN <<text>>
    ELSE <<SubSeq(text, 1, IndexOf(text, ch) - 1),
           SubSeq(text, IndexOf(text, ch) + 1, Len(text))>>

RECURSIVE SplitAll(_, _)
\* text.split(ch)
SplitAll(text, ch) ==
    IF IndexOf(text, ch) = 0 THEN <<text>>
    ELSE <<SubSeq(text, 1, IndexOf(text, ch) - 1)>>
         \o SplitAll(SubSeq(text, IndexOf(text, ch) + 1, Len(text)), ch)

\* props[key] = value: a key the dict holds keeps its place
SetItem(props, key, value) ==
    IF \E k \in 1..Len(props) : props[k].key = key
    THEN [k \in 1..Len(props) |->
             IF props[k].key = key THEN [key |-> key, value |-> value]
             ELSE props[k]]
    ELSE Append(props, [key |-> key, value |-> value])

\* One pass of the loop of admin.py:120-130 for the argument arg; p holds
\* props and the exception raised, if any.
PropFromArg(arg, p) ==
    IF Len(SplitFirst(arg, Equals)) < 2
    THEN [p EXCEPT !.err = "UsageError"]
    ELSE [p EXCEPT !.props =
             SetItem(@, SplitFirst(arg, Equals)[1],
                     IF SplitFirst(arg, Equals)[2] # <<>>
                     THEN SplitFirst(arg, Equals)[2] ELSE NoVal)]

RECURSIVE PropsFromArgs(_, _)
\* for arg in args
PropsFromArgs(args, p) ==
    IF args = <<>> \/ p.err # "" THEN p
    ELSE PropsFromArgs(Tail(args), PropFromArg(Head(args), p))

\* what props_from_args returns; nothing is returned when it raises
Returned(p) == IF p.err # "" THEN [p EXCEPT !.props = <<>>] ELSE p

props_from_args(args) ==
    Returned(PropsFromArgs(args, [err |-> "", props |-> <<>>]))

---------------------------------------------------------------------------
(* AdminTool.do_filter(args): filter classname propname=value ...          *)
(* The schema is the tracker's: two classes, with String and Link          *)
(* properties.                                                             *)

C_issue  == <<"i","s","s","u","e">>
C_user   == <<"u","s","e","r">>
C_nosuch == <<"n","o","n","e">>

P_title      == <<"t","i","t","l","e">>
P_assignedto == <<"a","s","s","i","g","n","e","d","t","o">>
P_superseder == <<"s","u","p","e","r","s","e","d","e","r">>
P_manager    == <<"m","a","n","a","g","e","r">>
P_team       == <<"t","e","a","m">>
P_nosuch     == <<"n","o","s","u","c","h">>

\* the classes self.db.getclass knows
FilterClasses == {C_issue, C_user}

\* the kinds of property that have a classname attribute
LinkKinds == {"Link", "Multilink"}

\* cl.getprops() of the class named c
getprops(c) ==
    IF c = C_issue
    THEN (P_title :> [kind |-> "String", classname |-> <<>>])
         @@ (P_assignedto :> [kind |-> "Link", classname |-> C_user])
         @@ (P_superseder :> [kind |-> "Multilink", classname |-> C_issue])
    ELSE (P_manager :> [kind |-> "Link", classname |-> C_user])
         @@ (P_team :> [kind |-> "String", classname |-> <<>>])

\* the local variable curclassname has not been assigned
Unbound == <<"unbound">>

\* One pass of the loop of admin.py:820-842 for the component pn.  w holds
\* curclass (by name), curclassname, lastprop and the exception raised.  The
\* message of the UsageError is formatted from locals(): it names
\* curclassname, and formatting raises KeyError while that is unassigned.
Hop(pn, w) ==
    IF pn \notin DOMAIN getprops(w.curclass)
    THEN IF w.curclassname = Unbound
         THEN [w EXCEPT !.lastprop = pn, !.err = "KeyError"]
         ELSE [w EXCEPT !.lastprop = pn, !.err = "UsageError",
                        !.cls = w.curclassname, !.hop = pn]
    ELSE IF getprops(w.curclass)[pn].kind \notin LinkKinds
    THEN [w EXCEPT !.lastprop = pn]       \* except AttributeError: pass
    ELSE [w EXCEPT !.lastprop = pn,
                   !.curclassname = getprops(w.curclass)[pn].classname,
                   !.curclass = getprops(w.curclass)[pn].classname]

RECURSIVE Hops(_, _)
\* for pn in propname.split('.')
Hops(pns, w) ==
    IF pns = <<>> \/ w.err # "" THEN w
    ELSE Hops(Tail(pns), Hop(Head(pns), w))

\* admin.py:813-842: the class and the property the values of propname are
\* decoded against; q is the state of the property loop
Walk(cl, propname, q) ==
    IF IndexOf(propname, Dot) = 0
    THEN [q EXCEPT !.curclass = cl, !.lastprop = propname]
    ELSE Hops(SplitAll(propname, Dot),
              [q EXCEPT !.curclass = cl, !.lastprop = propname])

\* hyperdb.rawToHyperdb(self.db, curclass, None, lastprop, value) for every
\* value: the property must be one of the class
Decode(propname, values, w) ==
    IF w.err # "" THEN w
    ELSE IF w.lastprop \notin DOMAIN getprops(w.curclass)
    THEN [w EXCEPT !.err = "HyperdbValueError"]
    ELSE [w EXCEPT !.decoded = @ \o
             [k \in 1..Len(values) |->
                 [propname |-> propname, cls |-> w.curclass,
                  prop |-> w.lastprop, value |-> values[k]]]]

\* One pass of the loop of admin.py:805-846 for the item of props
FilterProp(cl, item, q) ==
    IF item.value = NoVal THEN [q EXCEPT !.err = "TypeError"]
    ELSE Decode(item.key, SplitAll(item.value, Comma),
                Walk(cl, item.key, q))

RECURSIVE FilterProps(_, _, _)
\* for propname, value in props.items()
FilterProps(cl, items, q) ==
    IF items = <<>> \/ q.err # "" THEN q
    ELSE FilterProps(cl, Tail(items), FilterProp(cl, Head(items), q))

\* props_from_args was not called
NotCalled == [err |-> "not called", props |-> <<>>]

\* the state of the property loop before its first pass
NoWalk == [curclass |-> <<>>, curclassname |-> Unbound, lastprop |-> <<>>,
           err |-> "", cls |-> <<>>, hop |-> <<>>, decoded |-> <<>>]

\* no do_filter call has ended
IdleFlt == [args |-> <<>>, pfa |-> NotCalled, err |-> "", cls |-> <<>>,
            hop |-> <<>>, decoded |-> <<>>, filtered |-> FALSE, ret |-> -1]

\* do_filter raises UsageError before it parses the assignments
\* (admin.py:795-799)
FilterUsage(args) ==
    [IdleFlt EXCEPT !.args = args, !.err = "UsageError", !.ret = 1]

\* The call as the claims see it: what props_from_args gave, what was
\* decoded, what was raised and whether cl.filter was called (admin.py:849-871;
\* the query itself is the storage engine's).
FilterResult(args, parsed, q) ==
    [args |-> args, pfa |-> parsed,
     err |-> IF parsed.err # "" THEN parsed.err ELSE q.err,
     cls |-> q.cls, hop |-> q.hop, decoded |-> q.decoded,
     filtered |-> parsed.err = "" /\ q.err = "",
     ret |-> RetOf(IF parsed.err # "" THEN parsed.err ELSE q.err)]

\* do_filter behind the argument checks (admin.py:801-871)
Filtered(args, parsed) ==
    FilterResult(args, parsed, FilterProps(args[1], parsed.props, NoWalk))

\* do_filter(args), as run_command calls it
do_filter(args) ==
    IF Len(args) < 1 \/ args[1] \notin FilterClasses
    THEN FilterUsage(args)
    ELSE Filtered(args, props_from_args(Tail(args)))

---------------------------------------------------------------------------
(* The arguments the model gives to do_filter.                             *)

\* the longest dotted path
MaxHops == 3

\* the components of a path: properties of the two classes, a name that is
\* no property, the empty name
HopNames == {P_title, P_assignedto, P_superseder, P_manager, P_team,
             P_nosuch, <<>>}

Paths == UNION {[1..n -> HopNames] : n \in 1..MaxHops}

RECURSIVE Join(_, _)
\* sep.join(texts)
Join(texts, sep) ==
    IF Len(texts) = 1 THEN texts[1]
    ELSE texts[1] \o <<sep>> \o Join(Tail(texts), sep)

\* an assignment that walks to a String property of user
EarlierArg == Join(<<P_assignedto, P_team>>, Dot) \o <<Equals, "y">>

\* propname=value for every path, and assignments without '=', without a
\* value, with a second '=' and with a list of values
PropArgs ==
    {Join(h, Dot) \o <<Equals, "x">> : h \in Paths}
    \cup { P_title,
           P_title \o <<Equals>>,
           P_title \o <<Equals, "x", Equals, "y">>,
           P_title \o <<Equals, "x", Comma, "y">>,
           Join(<<P_assignedto, P_team>>, Dot) \o <<Equals, "x", Comma, "y">> }

FilterArgs ==
    {<<>>}
    \cup {<<c>> : c \in FilterClasses \cup {C_nosuch}}
    \cup {<<c, a>> : c \in FilterClasses \cup {C_nosuch}, a \in PropArgs}
    \cup {<<c, EarlierArg, a>> : c \in FilterClasses, a \in PropArgs}

\* the command is given once
DoFilter ==
    /\ flt.ret = -1
    /\ flt' = do_filter(flt.args)
    /\ UNCHANGED <<svars, rtvars, main, act>>

NextFilter == DoFilter

---------------------------------------------------------------------------
(* Designators, and AdminTool.do_reindex(args) (admin.py:1609-1633).  The  *)
(* tracker is the one of do_filter; each of its classes holds the items 1  *)
(* and 2.                                                                  *)

\* [A-Za-z]
IsLetter(ch) ==
    ch \in {"a","b","c","d","e","f","g","h","i","j","k","l","m","n","o","p",
            "q","r","s","t","u","v","w","x","y","z",
            "A","B","C","D","E","F","G","H","I","J","K","L","M","N","O","P",
            "Q","R","S","T","U","V","W","X","Y","Z"}

\* [0-9]
IsDigit(ch) == ch \in Range(Digits)

RECURSIVE LetterRun(_)
\* how many letters the text begins with
LetterRun(text) ==
    IF text = <<>> \/ ~IsLetter(Head(text)) THEN 0
    ELSE 1 + LetterRun(Tail(text))

RECURSIVE DigitRun(_)
\* how many digits the text begins with
DigitRun(text) ==
    IF text = <<>> \/ ~IsDigit(Head(text)) THEN 0
    ELSE 1 + DigitRun(Tail(text))

\* the text behind its first n characters
Behind(text, n) == SubSeq(text, n + 1, Len(text))

\* no match
NoMatch == [ok |-> FALSE, classname |-> <<>>, itemid |-> <<>>]

\* the groups of a match that ends behind the letters and the digits
Groups(text) ==
    [ok |-> TRUE,
     classname |-> SubSeq(text, 1, LetterRun(text)),
     itemid |-> SubSeq(text, LetterRun(text) + 1,
                       LetterRun(text) + DigitRun(Behind(text, LetterRun(text))))]

\* designator_re.match(arg), designator_re = '([A-Za-z]+)([0-9]+)': the
\* pattern is matched at the start of arg; what follows the digits is not
\* looked at
DesignatorMatch(arg) ==
    IF LetterRun(arg) > 0 /\ DigitRun(Behind(arg, LetterRun(arg))) > 0
    THEN Groups(arg) ELSE NoMatch

\* the identifiers of the items every class holds
ItemIds == {<<"1">>, <<"2">>}

\* One pass of the loop of admin.py:1619-1630 for args[n]; w holds the
\* calls made and the exception raised.
ReindexArg(args, n, w) ==
    IF DesignatorMatch(args[n]).ok
    THEN IF DesignatorMatch(args[n]).classname \notin FilterClasses
         THEN [w EXCEPT !.err = "UsageError"]
         ELSE IF DesignatorMatch(args[n]).itemid \notin ItemIds
         THEN [w EXCEPT !.err = "UsageError"]      \* cl.index: IndexError
         ELSE [w EXCEPT !.calls = Append(@,
                  [call |-> "index", arg |-> n,
                   classname |-> DesignatorMatch(args[n]).classname,
                   itemid |-> DesignatorMatch(args[n]).itemid])]
    ELSE IF args[n] \notin FilterClasses
         THEN [w EXCEPT !.err = "UsageError"]
         ELSE [w EXCEPT !.calls = Append(@,
                  [call |-> "reindex", arg |-> n, classname |-> args[n],
                   itemid |-> <<>>])]

RECURSIVE ReindexArgs(_, _, _)
\* for arg in args
ReindexArgs(args, n, w) ==
    IF n > Len(args) \/ w.err # "" THEN w
    ELSE ReindexArgs(args, n + 1, ReindexArg(args, n, w))

\* what the command did and returned
Reindexed(args, w) ==
    [name |-> "reindex", args |-> args, err |-> w.err,
     calls |-> w.calls, ret |-> RetOf(w.err)]

\* do_reindex(args), as run_command calls it
do_reindex(args) ==
    IF args # <<>>
    THEN Reindexed(args, ReindexArgs(args, 1, [calls |-> <<>>, err |-> ""]))
    ELSE Reindexed(args, [calls |-> <<[call |-> "reindex", arg |-> 0,
                                      classname |-> <<>>, itemid |-> <<>>]>>,
                          err |-> ""])

---------------------------------------------------------------------------
(* AdminTool.do_set(args) (admin.py:717-783): set items prop=value ...     *)

\* hyperdb.splitDesignator(designator): the whole text is a class name and
\* an identifier; ok = FALSE stands for DesignatorError
splitDesignator(designator) ==
    IF /\ LetterRun(designator) > 0
       /\ DigitRun(Behind(designator, LetterRun(designator))) > 0
       /\ LetterRun(designator)
              + DigitRun(Behind(designator, LetterRun(designator)))
              = Len(designator)
    THEN Groups(designator) ELSE NoMatch

\* cl.list(), in the order the class gives
ItemList == <<<<"1">>, <<"2">>>>

\* admin.py:741-754: the designators of args[0], a class standing for all
\* of its items
Designators(parts) ==
    IF Len(parts) = 1
    THEN IF splitDesignator(parts[1]).ok
         THEN [err |-> "", items |-> <<splitDesignator(parts[1])>>]
         ELSE IF parts[1] \notin FilterClasses
         THEN [err |-> "UsageError", items |-> <<>>]
         ELSE [err |-> "",
               items |-> [k \in 1..Len(ItemList) |->
                             [ok |-> TRUE, classname |-> parts[1],
                              itemid |-> ItemList[k]]]]
    ELSE IF \A k \in 1..Len(parts) : splitDesignator(parts[k]).ok
         THEN [err |-> "",
               items |-> [k \in 1..Len(parts) |-> splitDesignator(parts[k])]]
         ELSE [err |-> "UsageError", items |-> <<>>]

\* hyperdb.rawToHyperdb(self.db, cl, itemid, key, value): the value of the
\* property that the text stands for; for an item it may depend on what the
\* item holds ('+admin' adds to a list), so it is no text of the command
\* line.  None stays None.
rawToHyperdb(itemid, value) ==
    IF value = NoVal THEN NoVal ELSE <<"=">> \o itemid \o <<"=">> \o value

\* mutant: props is the parsed mapping itself, so what is stored in props
\* is stored in propset
AfterCopy_alias(propset, props) == props

\* props = copy.copy(propset): propset after the loop has stored the
\* decoded values in props
AfterCopy(propset, props) == propset

RECURSIVE SetProps(_, _, _, _, _)
\* for key, value in list(props.items()): items is the rest of the list
\* taken before the loop, acc holds props, the values handed to
\* rawToHyperdb and the exception raised
SetProps(cl, d, n, items, acc) ==
    IF items = <<>> \/ acc.err # "" THEN acc
    ELSE SetProps(cl, d, n, Tail(items),
             IF Head(items).key \notin DOMAIN getprops(cl)
             THEN [acc EXCEPT
                     !.handed = Append(@, [designator |-> n,
                                           key |-> Head(items).key,
                                           value |-> Head(items).value]),
                     !.err = "UsageError"]       \* HyperdbValueError
             ELSE [acc EXCEPT
                     !.handed = Append(@, [designator |-> n,
                                           key |-> Head(items).key,
                                           value |-> Head(items).value]),
                     !.props = SetItem(@, Head(items).key,
                                  rawToHyperdb(d.itemid, Head(items).value))])

\* cl.set(itemid, **props) behind the decoding (admin.py:776-781); acc is
\* what the decoding ended in
SetItemProps(d, w, acc) ==
    IF acc.err # ""
    THEN [w EXCEPT !.handed = acc.handed, !.err = acc.err]
    ELSE IF d.itemid \notin ItemIds
    THEN [w EXCEPT !.handed = acc.handed,
                   !.err = "UsageError"]         \* IndexError: no such item
    ELSE [w EXCEPT !.handed = acc.handed,
                   !.sets = Append(@, [classname |-> d.classname,
                                       itemid |-> d.itemid,
                                       props |-> acc.props]),
                   !.propset = AfterCopy(@, acc.props),
                   !.propsets = Append(@, AfterCopy(w.propset, acc.props))]

\* One pass of the loop of admin.py:760-781 for the n-th designator d; w
\* holds propset, the values handed to rawToHyperdb, the cl.set calls that
\* changed the store and the exception raised.
SetDesignator(d, n, w) ==
    IF d.classname \notin FilterClasses
    THEN [w EXCEPT !.err = "UsageError"]
    ELSE SetItemProps(d, w,
             SetProps(d.classname, d, n, w.propset,
                      [props |-> w.propset, handed |-> w.handed, err |-> ""]))

RECURSIVE SetDesignators(_, _, _)
\* for classname, itemid in designators
SetDesignators(ds, n, w) ==
    IF n > Len(ds) \/ w.err # "" THEN w
    ELSE SetDesignators(ds, n + 1, SetDesignator(ds[n], n, w))

\* what the command did and returned
SetResult(args, parsed, w) ==
    [name |-> "set", args |-> args, err |-> w.err,
     parsed |-> parsed, handed |-> w.handed, sets |-> w.sets,
     propsets |-> w.propsets, ret |-> RetOf(w.err)]

\* the command raised before the loop over the designators
NoSet(err) ==
    [propset |-> <<>>, handed |-> <<>>, sets |-> <<>>, propsets |-> <<>>,
     err |-> err]

\* do_set behind the argument count: ds is what args[0] stands for, parsed
\* what props_from_args gave
SetAll(args, ds, parsed) ==
    IF ds.err # "" THEN SetResult(args, <<>>, NoSet(ds.err))
    ELSE IF parsed.err # "" THEN SetResult(args, <<>>, NoSet(parsed.err))
    ELSE SetResult(args, parsed.props,
             SetDesignators(ds.items, 1,
                 [NoSet("") EXCEPT !.propset = parsed.props]))

\* do_set(args), as run_command calls it
do_set(args) ==
    IF Len(args) < 2 THEN SetResult(args, <<>>, NoSet("UsageError"))
    ELSE SetAll(args, Designators(SplitAll(args[1], Comma)),
                props_from_args(Tail(args)))

---------------------------------------------------------------------------
(* AdminTool.do_create(args) (admin.py:986-1054): create classname         *)
(* property=value ...                                                      *)

\* cl.getkey(): the key property of the class, <<>> for a class without
KeyOf(c) == IF c = C_user THEN P_team ELSE <<>>

\* the properties of the class in the order cl.getprops(protected=0) gives
PropOrder(c) ==
    IF c = C_issue THEN <<P_title, P_assignedto, P_superseder>>
    ELSE <<P_manager, P_team>>

RECURSIVE Asked(_, _, _)
\* admin.py:1006-1030: the properties asked for one after the other;
\* answers[k] is what was typed for the k-th, and an empty answer leaves
\* the property out
Asked(order, answers, props) ==
    IF order = <<>> THEN props
    ELSE Asked(Tail(order), Tail(answers),
               IF Head(answers) # <<>>
               THEN SetItem(props, Head(order), Head(answers))
               ELSE props)

RECURSIVE ConvertProps(_, _, _)
\* for propname in props (admin.py:1035-1041): items is the rest of the
\* keys, acc holds props, how many values were decoded and the exception
ConvertProps(cl, items, acc) ==
    IF items = <<>> \/ acc.err # "" THEN acc
    ELSE ConvertProps(cl, Tail(items),
             IF Head(items).key \notin DOMAIN getprops(cl)
             THEN [acc EXCEPT !.err = "UsageError"]   \* HyperdbValueError
             ELSE [acc EXCEPT
                     !.decoded = @ + 1,
                     !.props = SetItem(@, Head(items).key,
                                       rawToHyperdb(NoVal, Head(items).value))])

\* mutant: the key property is not looked for
KeyMissing_never(cl, props) == FALSE

\* propname and propname not in props (admin.py:1044-1047)
KeyMissing(cl, props) ==
    /\ KeyOf(cl) # <<>>
    /\ \A k \in 1..Len(props) : props[k].key # KeyOf(cl)

\* what the command did and returned
CreateResult(c, acc) ==
    [name |-> "create", args |-> c.args, answers |-> c.answers,
     taken |-> c.taken, err |-> acc.err,
     decoded |-> acc.decoded, created |-> acc.created, ret |-> RetOf(acc.err)]

\* the command raised before anything was decoded
NoCreate(err) ==
    [props |-> <<>>, decoded |-> 0, created |-> <<>>, err |-> err]

\* admin.py:1043-1054 for what the decoding ended in: the key check, and
\* cl.create, which raises ValueError for a key value that is taken
CreateNode(c, acc) ==
    IF acc.err # "" THEN CreateResult(c, acc)
    ELSE IF KeyMissing(c.args[1], acc.props)
    THEN CreateResult(c, [acc EXCEPT !.err = "UsageError"])
    ELSE IF KeyOf(c.args[1]) # <<>> /\ c.taken
    THEN CreateResult(c, [acc EXCEPT !.err = "UsageError"])
    ELSE CreateResult(c, [acc EXCEPT !.created = Append(@, acc.props)])

\* do_create behind get_class, for the props parsed or asked for
CreateFrom(c, parsed) ==
    IF parsed.err # "" THEN CreateResult(c, NoCreate(parsed.err))
    ELSE CreateNode(c,
             ConvertProps(c.args[1], parsed.props,
                          [NoCreate("") EXCEPT !.props = parsed.props]))

\* do_create(args), as run_command calls it; c holds args, what is typed
\* at the prompts and whether the key value is taken
do_create(c) ==
    IF Len(c.args) < 1 THEN CreateResult(c, NoCreate("UsageError"))
    ELSE IF c.args[1] \notin FilterClasses
    THEN CreateResult(c, NoCreate("UsageError"))
    ELSE IF Len(c.args) = 1
    THEN CreateFrom(c, [err |-> "",
                        props |-> Asked(PropOrder(c.args[1]), c.answers, <<>>)])
    ELSE CreateFrom(c, props_from_args(Tail(c.args)))

---------------------------------------------------------------------------
(* A session of set, create, reindex, commit and rollback commands on an   *)
(* open tracker.  act is what the last command did; its field unc is       *)
(* db_uncommitted when the command was given, and dirty tells whether the  *)
(* store was changed since the last commit or rollback.                    *)

\* the store was changed since the last commit or rollback
Dirty(a) == a.name # "none" /\ a.dirty

\* the command changed the store: a cl.set or a cl.create call returned
Mutated(r) ==
    \/ r.name = "set" /\ r.sets # <<>>
    \/ r.name = "create" /\ r.created # <<>>

\* the record of the command, with the history the claims speak about
Done(r, a, flag) ==
    r @@ [unc |-> flag, dirty |-> Dirty(a) \/ Mutated(r)]

\* self.db_uncommitted = True is the last statement before return 0 of
\* do_set (admin.py:782) and of do_create (admin.py:1053); do_reindex has
\* none
FlagAfterCall(r, flag) ==
    IF r.name \in {"set", "create"} /\ r.err = "" THEN TRUE ELSE flag

\* the designators, and the texts that are none
SetItems ==
    { C_issue \o <<"1">>,
      C_issue \o <<"1", Comma>> \o C_issue \o <<"2">>,
      C_issue \o <<"1", Comma>> \o C_nosuch \o <<"2">>,
      C_issue \o <<"1", Comma>> \o C_issue \o <<"9">>,
      C_issue \o <<"9", Comma>> \o C_issue \o <<"1">>,
      C_issue \o <<"1", Comma>> \o C_issue,
      C_issue,
      C_nosuch,
      C_issue \o <<"1", "x">> }

\* property=value, property= and a text without '='
SetAssignments ==
    { P_title \o <<Equals, "x">>,
      P_title \o <<Equals>>,
      P_superseder \o <<Equals, "+", "1">>,
      P_nosuch \o <<Equals, "y">>,
      P_title }

SetArgs ==
    {<<>>}
    \cup {<<d>> : d \in SetItems}
    \cup {<<d, a>> : d \in SetItems, a \in SetAssignments}
    \cup {<<d, a, b>> : d \in SetItems, a \in SetAssignments,
                        b \in {P_superseder \o <<Equals, "+", "1">>,
                               P_nosuch \o <<Equals, "y">>}}

CreateAssignments ==
    { P_team \o <<Equals, "a">>,
      P_manager \o <<Equals, "1">>,
      P_title \o <<Equals, "x">>,
      P_team }

\* what is typed at the prompts of create for the class c
CreateAnswers(c) == [1..Len(PropOrder(c)) -> {<<>>, <<"x">>}]

CreateCalls ==
    {[args |-> <<>>, answers |-> <<>>, taken |-> FALSE]}
    \cup {[args |-> <<C_nosuch>>, answers |-> <<>>, taken |-> FALSE]}
    \cup UNION {{[args |-> <<c>>, answers |-> w, taken |-> t] :
                     w \in CreateAnswers(c), t \in BOOLEAN} :
                 c \in FilterClasses}
    \cup {[args |-> <<c, a>>, answers |-> <<>>, taken |-> t] :
             c \in FilterClasses, a \in CreateAssignments, t \in BOOLEAN}
    \cup {[args |-> <<c, a, b>>, answers |-> <<>>, taken |-> t] :
             c \in FilterClasses, a \in CreateAssignments,
             b \in {P_team \o <<Equals, "a">>, P_title \o <<Equals, "x">>},
             t \in BOOLEAN}

ReindexTexts ==
    { C_issue, C_nosuch, C_issue \o <<"1">>, C_issue \o <<"9">>,
      C_issue \o <<"1", "x">>, C_user \o <<"2">>, C_nosuch \o <<"1">>,
      <<"1">> }

ReindexCalls ==
    {<<>>} \cup {<<a>> : a \in ReindexTexts}
           \cup {<<a, b>> : a \in ReindexTexts,
                            b \in {C_user, C_issue \o <<"1", "x">>,
                                   C_nosuch \o <<"1">>}}

\* what a command of the session leaves alone
CallFrame ==
    UNCHANGED <<tracker_home, db, command, functions, lookup, executed,
                opened, db_opened, unc_before, ret, raised, committed,
                rtvars, flt, main>>

\* set is given
DoSet(args) ==
    /\ act' = Done(do_set(args), act, db_uncommitted)
    /\ db_uncommitted' = FlagAfterCall(do_set(args), db_uncommitted)
    /\ CallFrame

\* create is given; c holds its arguments
DoCreate(c) ==
    /\ act' = Done(do_create(c), act, db_uncommitted)
    /\ db_uncommitted' = FlagAfterCall(do_create(c), db_uncommitted)
    /\ CallFrame

\* reindex is given
DoReindex(args) ==
    /\ act' = Done(do_reindex(args), act, db_uncommitted)
    /\ db_uncommitted' = FlagAfterCall(do_reindex(args), db_uncommitted)
    /\ CallFrame

\* do_commit (admin.py:1275-1288) and do_rollback (admin.py:1290-1301):
\* the changes are saved or dropped, and the flag is cleared
DoEnd(name) ==
    /\ act' = [name |-> name, err |-> "", ret |-> 0,
               unc |-> db_uncommitted, dirty |-> FALSE]
    /\ db_uncommitted' = FALSE
    /\ CallFrame

NextCmd ==
    \/ \E args \in SetArgs : DoSet(args)
    \/ \E c \in CreateCalls : DoCreate(c)
    \/ \E args \in ReindexCalls : DoReindex(args)
    \/ \E name \in {"commit", "rollback"} : DoEnd(name)

---------------------------------------------------------------------------
(* AdminTool.main (admin.py:1908-1920).  With a command on the command     *)
(* line: run_command, then commit, then close in the finally clause.       *)
(* Without one: AdminTool.interactive (admin.py:1822-1852), a loop of       *)
(* run_command calls that ends with the question about unsaved changes,    *)
(* then close in the finally clause.                                       *)

\* main before run_command was called
IdleMain == [mode |-> "command", pc |-> "run", commits |-> 0, closes |-> 0,
             prompted |-> FALSE, answer |-> <<>>]

\* no do_set, do_create or do_reindex call has been made
IdleCall == [name |-> "none"]

\* ret = self.run_command(args)
MainRun ==
    /\ main.mode = "command"
    /\ main.pc = "run"
    /\ lookup = "none"
    /\ run_command

\* if self.db: self.db.commit()
Commits(open) == IF open THEN 1 ELSE 0

\* run_command has returned
MainCommit ==
    /\ main.mode = "command"
    /\ main.pc = "run"
    /\ lookup # "none" /\ ~raised
    /\ main' = [main EXCEPT !.pc = "return",
                            !.commits = @ + Commits(db)]
    /\ UNCHANGED <<svars, rtvars, flt, act>>

\* mutant: the database is left open
Closes_never(open) == 0

\* finally: if self.db: self.db.close()
Closes(open) == IF open THEN 1 ELSE 0

\* the finally clause; an exception that escaped run_command comes here
\* without the commit
MainClose ==
    /\ \/ main.pc = "return"
       \/ main.pc = "run" /\ raised
    /\ main' = [main EXCEPT !.pc = "exit", !.closes = @ + Closes(db)]
    /\ UNCHANGED <<svars, rtvars, flt, act>>

NextMain == MainRun \/ MainCommit \/ MainClose

\* what the administrator may answer to the question about unsaved changes
Answers == {<<>>, <<"y">>, <<"Y">>, <<"n">>, <<"y","e","s">>, <<"n","o">>}

\* ch.lower()
Lower(ch) == IF ch = "Y" THEN "y" ELSE IF ch = "N" THEN "n" ELSE ch

\* commit and commit[0].lower() == 'y'
IsYes(answer) == answer # <<>> /\ Lower(answer[1]) = "y"

\* if self.db and self.db_uncommitted: the question is asked
Prompts(open, unc) == open /\ unc

\* a line of the session is a command: self.run_command(args)
Command ==
    /\ main.mode = "interactive"
    /\ main.pc = "run"
    /\ ~raised
    /\ run_command

\* the session ends (quit, exit or end of input): the question about
\* unsaved changes, and the commit if the answer is yes
Quit(answer) ==
    /\ main.mode = "interactive"
    /\ main.pc = "run"
    /\ ~raised
    /\ ~Prompts(db, db_uncommitted) => answer = <<>>
    /\ main' = [main EXCEPT
                  !.pc = "return",
                  !.prompted = Prompts(db, db_uncommitted),
                  !.answer = answer,
                  !.commits = @ + (IF Prompts(db, db_uncommitted) /\ IsYes(answer)
                                   THEN 1 ELSE 0)]
    /\ UNCHANGED <<svars, rtvars, flt, act>>

NextSession ==
    \/ NextMain
    \/ Command
    \/ \E answer \in Answers : Quit(answer)

---------------------------------------------------------------------------
\* the session before its first command
SessionInit ==
    /\ act = IdleCall
    /\ committed = FALSE
    /\ db_uncommitted = FALSE
    /\ command = <<>>
    /\ functions = <<>>
    /\ lookup = "none"
    /\ executed = NoCmd
    /\ opened = "no"
    /\ db_opened = FALSE
    /\ unc_before = FALSE
    /\ ret = -1
    /\ raised = FALSE

\* a tracker without nodes and an empty directory
TrackerInit ==
    /\ store = EmptyStore
    /\ counter = [c \in Range(classes) |-> 1]
    /\ journal = EmptyStore
    /\ csv_field_size = CSV_FIELD_SIZE
    /\ dir = [csv |-> <<>>, journals |-> <<>>, blobs |-> {}]
    /\ rt = IdleRt
    /\ snap = [taken |-> FALSE, store |-> EmptyStore, journal |-> EmptyStore]
    /\ pre = [store |-> EmptyStore, counter |-> [c \in Range(classes) |-> 1]]
    /\ edited = FALSE
    /\ phase = "work"

Init ==
    /\ tracker_home \in BOOLEAN      \* TRACKER_HOME / -i may be given or not
    /\ db = FALSE
    /\ flt = IdleFlt
    /\ main = IdleMain
    /\ SessionInit
    /\ TrackerInit

Next == run_command

Spec == Init /\ [][Next]_vars

\* the round trip: the tracker is open, commands are given one by one
InitRT ==
    /\ tracker_home = TRUE
    /\ db = TRUE
    /\ flt = IdleFlt
    /\ main = IdleMain
    /\ SessionInit
    /\ TrackerInit

SpecRT == InitRT /\ [][NextRT]_vars

\* filter: the tracker is open, the command is about to be given
InitFilter ==
    /\ tracker_home = TRUE
    /\ db = TRUE
    /\ \E args \in FilterArgs : flt = [IdleFlt EXCEPT !.args = args]
    /\ main = IdleMain
    /\ SessionInit
    /\ TrackerInit

SpecFilter == InitFilter /\ [][NextFilter]_vars

\* main with a command on the command line
SpecMain == Init /\ [][NextMain]_vars

\* main with or without a command on the command line
InitSession ==
    /\ tracker_home \in BOOLEAN
    /\ db = FALSE
    /\ flt = IdleFlt
    /\ main \in {IdleMain, [IdleMain EXCEPT !.mode = "interactive"]}
    /\ SessionInit
    /\ TrackerInit

SpecSession == InitSession /\ [][NextSession]_vars

\* a session of commands on the open tracker
SpecCmd == InitRT /\ [][NextCmd]_vars

---------------------------------------------------------------------------
(* Claims about command resolution, checked under Spec.                    *)

\* the registered names that the typed name is a prefix of
Claim_Matches(cmd) == {n \in Registered : StartsWith(n, cmd)}

\* a run_command call has returned or raised
Claim_Ran == lookup # "none"

\* roundup.instance.open failed, so run_command gave up before dispatching
Claim_TrackerFailed == opened \notin {"no", "ok"}

\* C1: whenever the typed name is exactly a registered command name,
\* resolution returns that single command (and run_command calls no other),
\* even if the typed name is also a proper prefix of other registered names.
C1_ExactMatchWins ==
    (Claim_Ran /\ command \in Registered) =>
        /\ lookup = "found" => functions = <<command>>
        /\ executed \in {command, NoCmd}
        /\ executed = NoCmd => Claim_TrackerFailed

\* 'export' was typed, which is also a proper prefix of 'exporttables'
C1_Witness ==
    /\ command = N_export
    /\ Cardinality(Claim_Matches(command)) = 2
    /\ functions = <<N_export>>
    /\ executed = N_export

\* C2: when the typed name is not a registered name and exactly one
\* registered name has it as a prefix, resolution yields exactly that command
\* and run_command dispatches that command and no other (it dispatches
\* nothing only when the tracker cannot be opened).
C2_UniquePrefix ==
    \A n \in Registered :
        (Claim_Ran /\ command \notin Registered /\ Claim_Matches(command) = {n}) =>
            /\ lookup = "found"
            /\ functions = <<n>>
            /\ executed \in {n, NoCmd}
            /\ executed = NoCmd => Claim_TrackerFailed

\* 'l' was typed and list was called
C2_Witness ==
    /\ command = <<"l">>
    /\ functions = << <<"l","i","s","t">> >>
    /\ executed = <<"l","i","s","t">>
    /\ ret = 0

\* C3: when the typed name is not a registered name and more than one
\* registered name has it as a prefix, the result carries all and only the
\* matching names in lexicographic order; run_command returns 1 without
\* executing a command, opening the tracker or the database, or changing
\* db_uncommitted.
C3_Ambiguous ==
    (Claim_Ran /\ command \notin Registered
               /\ Cardinality(Claim_Matches(command)) > 1) =>
        /\ lookup = "found"
        /\ Range(functions) = Claim_Matches(command)
        /\ \A i, j \in 1..Len(functions) :
               i < j => StrLess(functions[i], functions[j])
        /\ ret = 1 /\ ~raised
        /\ executed = NoCmd
        /\ opened = "no" /\ ~db_opened
        /\ db_uncommitted = unc_before

\* 're' was typed while changes were pending: retire, restore, reindex match
C3_Witness ==
    /\ command = <<"r","e">>
    /\ Len(functions) = 3
    /\ functions[1] = <<"r","e","i","n","d","e","x">>
    /\ db_uncommitted /\ db
    /\ ret = 1

\* C4 as stated: when no registered name equals or starts with the typed
\* name, resolution reports NotFound and run_command returns 1 without
\* executing a command, opening the tracker or the database, or changing
\* db_uncommitted.
C4_NotFound_Original ==
    (Claim_Ran /\ Claim_Matches(command) = {}) =>
        /\ lookup = "KeyError"
        /\ ret = 1 /\ ~raised
        /\ executed = NoCmd
        /\ opened = "no" /\ ~db_opened
        /\ db_uncommitted = unc_before

\* C4 amended: the same, for every typed name other than 'morehelp', which
\* run_command answers itself (admin.py:1734-1738) before any resolution.
C4_NotFound ==
    (Claim_Ran /\ Claim_Matches(command) = {} /\ command # N_morehelp) =>
        /\ lookup = "KeyError"
        /\ functions = <<>>
        /\ ret = 1 /\ ~raised
        /\ executed = NoCmd
        /\ opened = "no" /\ ~db_opened
        /\ db_uncommitted = unc_before

\* 'lists' was typed while changes were pending: nothing starts with it
C4_Witness ==
    /\ command = <<"l","i","s","t","s">>
    /\ lookup = "KeyError"
    /\ db_uncommitted /\ db
    /\ ret = 1

\* C20 as stated: run_command never lets an exception of a resolved
\* command escape; whatever fails inside the command, initialise, install
\* and templates included, run_command returns 1.
C20_NoCrash ==
    executed # NoCmd => ~raised /\ ret \in {0, 1}

\* the commands the claim names as changing the store
Claim_Mutating == {
    <<"s","e","t">>, <<"c","r","e","a","t","e">>, <<"r","e","t","i","r","e">>,
    <<"r","e","s","t","o","r","e">>, <<"i","m","p","o","r","t">>,
    <<"i","m","p","o","r","t","t","a","b","l","e","s">>, <<"p","a","c","k">> }

\* the commands the claim names as leaving the flag alone
Claim_ReadOnly == {
    <<"g","e","t">>, <<"l","i","s","t">>, <<"f","i","n","d">>,
    <<"f","i","l","t","e","r">>, <<"d","i","s","p","l","a","y">>,
    <<"h","i","s","t","o","r","y">>, <<"t","a","b","l","e">>,
    <<"s","p","e","c","i","f","i","c","a","t","i","o","n">>,
    <<"e","x","p","o","r","t">>,
    <<"e","x","p","o","r","t","t","a","b","l","e","s">> }

\* C25: db_uncommitted is False after commit or rollback returns, True
\* after a successful set, create, retire, restore, import, importtables or
\* pack, and unchanged by get, list, find, filter, display, history, table,
\* specification, export and exporttables and by a command that fails.
C25_FlagTransitions ==
    (executed # NoCmd /\ ~raised) =>
        /\ (executed \in {N_commit, N_rollback} /\ ret = 0) => ~db_uncommitted
        /\ (executed \in Claim_Mutating /\ ret = 0) => db_uncommitted
        /\ executed \in Claim_ReadOnly => db_uncommitted = unc_before
        /\ ret = 1 => db_uncommitted = unc_before

\* rollback returned with changes pending
C25_Witness ==
    /\ executed = N_rollback
    /\ ret = 0
    /\ unc_before
    /\ ~db_uncommitted

\* C29: over the run_command calls of one session tracker.open is called
\* at most once, and every later command runs on the handle it gave.
C29_SingleOpen ==
    [][(db => db') /\ (db => ~db_opened')]_vars

\* a command ran on a handle that an earlier command had opened
C29_Witness ==
    /\ db
    /\ ~db_opened
    /\ opened = "ok"
    /\ executed # NoCmd

---------------------------------------------------------------------------
(* Claims about export and import, checked under SpecRT.                   *)

\* an import or importtables command with its argument has returned
Claim_Imported ==
    /\ phase = "done"
    /\ rt.cmd \in {"import", "importtables"}
    /\ rt.err # "UsageError"

\* the import went into classes that held no node
Claim_IntoEmpty == pre.store = EmptyStore

\* the fields of a line of the directory
Claim_Fields(line) == readrow(line, NoLimit).fields

\* every line of the directory's class and journal files
Claim_Lines ==
    UNION {Range(dir.csv[c]) : c \in DOMAIN dir.csv}
    \cup UNION {Range(dir.journals[c]) : c \in DOMAIN dir.journals}

\* no field of the directory is longer than the importing tracker's
\* CSV_FIELD_SIZE
Claim_FieldsFit ==
    \A line \in Claim_Lines :
        \A k \in 1..Len(Claim_Fields(line)) :
            Len(Claim_Fields(line)[k]) <= csv_field_size

\* the greatest element of a non-empty set of identifiers
Claim_Max(S) == CHOOSE m \in S : \A x \in S : x <= m

\* class c holds the exported nodes: identifiers, values, retirement flags
Claim_SameNodes(c) ==
    /\ DOMAIN store[c] = DOMAIN snap.store[c]
    /\ \A i \in DOMAIN store[c] :
          /\ store[c][i].val = snap.store[c][i].val
          /\ store[c][i].retired = snap.store[c][i].retired

\* what the round trip is to give: the rows, the journals, the counters
Claim_RoundTrip ==
    /\ rt.err = "" /\ rt.ret = 0
    /\ \A c \in Range(classes) :
          /\ Claim_SameNodes(c)
          /\ journal[c] = snap.journal[c]
          /\ DOMAIN snap.store[c] # {} =>
                counter[c] = Claim_Max(DOMAIN snap.store[c]) + 1

\* C5 as stated: exporting a class with live and retired instances and
\* their journal entries and importing the produced files into an equivalent
\* empty class reproduces every row (identifier, values, retirement flag)
\* and every journal entry, and leaves the counter at (maximum identifier) + 1.
C5_RoundTrip_Original ==
    (Claim_Imported /\ ~edited /\ Claim_IntoEmpty) => Claim_RoundTrip

\* C5 amended: the same, provided no field of the produced files is longer
\* than the CSV_FIELD_SIZE of the importing tracker, which do_import makes
\* the reader's limit (admin.py:1507-1508); do_export only warns of longer
\* fields.
C5_RoundTrip ==
    (Claim_Imported /\ ~edited /\ Claim_IntoEmpty /\ Claim_FieldsFit) =>
        Claim_RoundTrip

\* two users, the first retired, and a message came back with their journals
C5_Witness ==
    /\ Claim_Imported /\ ~edited /\ Claim_IntoEmpty /\ Claim_FieldsFit
    /\ DOMAIN snap.store["user"] = {1, 2}
    /\ snap.store["user"][1].retired
    /\ DOMAIN snap.store["msg"] = {1}
    /\ Len(journal["user"][1]) = 2
    /\ counter["user"] = 3
    /\ rt.ret = 0

\* the line of the class file that holds node i (0: none)
Claim_RowOf(c, i) ==
    LET lines == dir.csv[c]
        col   == CHOOSE k \in 1..Len(export_propnames(c)) :
                     export_propnames(c)[k] = F_id
        rows  == {k \in 2..Len(lines) :
                     Claim_Fields(lines[k])[col] = repr_export(IntToStr(i))}
    IN  IF rows = {} THEN 0 ELSE Claim_Max(rows)

\* the directory holds what the export command wrote
Claim_Exported == snap.taken /\ ~edited

\* a retired and a live node of the keyed class c with the same key value
Claim_SameKey(c, i, j) ==
    /\ snap.store[c][i].retired /\ ~snap.store[c][j].retired
    /\ snap.store[c][i].val = snap.store[c][j].val

\* C6: for a class that has a key property, whenever two instances share
\* the key value and one is retired and the other live, the retired
\* instance's row stands strictly before the live instance's row in the
\* class's export file.
C6_RetiredFirst ==
    Claim_Exported =>
        \A c \in {x \in Range(classes) : getkey(x) # <<>>} :
            \A i, j \in DOMAIN snap.store[c] :
                Claim_SameKey(c, i, j) =>
                    /\ Claim_RowOf(c, i) > 0
                    /\ Claim_RowOf(c, i) < Claim_RowOf(c, j)

\* user 1 was retired and user 2 took its name before the export
C6_Witness ==
    /\ Claim_Exported /\ phase = "exported"
    /\ DOMAIN snap.store["user"] = {1, 2}
    /\ Claim_SameKey("user", 1, 2)
    /\ Len(dir.csv["user"]) = 3

\* the identifiers import_list stored for class c, in the order of the calls
Claim_ImportedIds(c) ==
    {rt.calls[k][3] : k \in {n \in 1..Len(rt.calls) :
                                rt.calls[n][1] = "import_list" /\ rt.calls[n][2] = c}}

\* do_import came to the end of class c's file and set the counter
Claim_Processed(c) ==
    \E k \in 1..Len(rt.calls) : rt.calls[k][1] = "setid" /\ rt.calls[k][2] = c

\* C7: after do_import has processed a class file that holds at least one
\* data row, the class's counter equals (the maximum identifier among the
\* rows imported from that file) + 1.
C7_CounterAfterImport ==
    Claim_Imported =>
        \A c \in Range(classes) :
            (Claim_Processed(c) /\ Claim_ImportedIds(c) # {}) =>
                counter[c] = Claim_Max(Claim_ImportedIds(c)) + 1

\* two users were imported, the one with the greater identifier first
C7_Witness ==
    /\ Claim_Imported /\ rt.err = ""
    /\ \E k \in 1..Len(rt.calls) :
          /\ rt.calls[k] = <<"import_list", "user", 2>>
          /\ rt.calls[k + 1] = <<"import_list", "user", 1>>
    /\ counter["user"] = 3

\* C8 as stated: after do_import has processed a class file, the class's
\* counter is strictly greater than every identifier of an instance present
\* in the class, instances that existed before the import and were not
\* overwritten included.
C8_NoCollision ==
    Claim_Imported =>
        \A c \in Range(classes) :
            Claim_Processed(c) =>
                \A i \in DOMAIN store[c] : counter[c] > i

\* the header of class c's file is not the class's property list followed
\* by the retired column
Claim_HeaderMismatch(c) ==
    Claim_Fields(dir.csv[c][1]) # Append(export_propnames(c), F_retired)

\* C9 as stated: when the header row of a class file disagrees with the
\* class's current property list in field count or names, the import of
\* that file fails and no row of that file is applied to the store.
C9_HeaderValidated ==
    Claim_Imported =>
        \A c \in DOMAIN dir.csv :
            Claim_HeaderMismatch(c) =>
                /\ rt.err # "" /\ rt.ret = 1
                /\ Claim_ImportedIds(c) = {}

\* a data row of class c's file has not as many fields as the header row
Claim_ArityMismatch(c) ==
    \E k \in 2..Len(dir.csv[c]) :
        Len(Claim_Fields(dir.csv[c][k])) # Len(Claim_Fields(dir.csv[c][1]))

\* C10 as stated: when a data row of a class file has a field count
\* different from the header row's, the import of that file fails with a
\* fatal error.
C10_RowArityChecked ==
    Claim_Imported =>
        \A c \in DOMAIN dir.csv :
            Claim_ArityMismatch(c) => (rt.err # "" /\ rt.ret = 1)

\* every line of class c's file and of its journal file
Claim_ClassLines(c) ==
    Range(dir.csv[c])
    \cup (IF c \in DOMAIN dir.journals THEN Range(dir.journals[c]) ELSE {})

\* no field of class c's files is longer than the tracker's CSV_FIELD_SIZE
Claim_ClassFits(c) ==
    \A line \in Claim_ClassLines(c) :
        \A k \in 1..Len(Claim_Fields(line)) :
            Len(Claim_Fields(line)[k]) <= csv_field_size

\* class c's data file is as an export for the class's schema writes it
Claim_DataGood(c) ==
    /\ ~Claim_HeaderMismatch(c)
    /\ ~Claim_ArityMismatch(c)
    /\ Claim_ClassFits(c)

\* nothing is wrong with class c's files
Claim_FileGood(c) == Claim_DataGood(c) /\ c \in DOMAIN dir.journals

\* C11 as stated: when a directory with several class files is imported, a
\* fatal error in one class file does not stop the batch: every other class
\* file of the directory is still imported.
C11_BatchIsolation ==
    Claim_Imported =>
        \A c \in DOMAIN dir.csv : Claim_FileGood(c) => Claim_Processed(c)

\* C12 as stated: when a class's data file is present and its journal file
\* is not, do_import skips the journal step, still sets the class's counter,
\* goes on with the other class files and returns success.
C12_MissingJournalTolerated ==
    (/\ Claim_Imported
     /\ \A c \in DOMAIN dir.csv : Claim_DataGood(c)
     /\ \E c \in DOMAIN dir.csv : c \notin DOMAIN dir.journals) =>
        /\ rt.err = "" /\ rt.ret = 0
        /\ \A c \in DOMAIN dir.csv : Claim_Processed(c)

\* an export of every class has ended and the directory is as it left it
Claim_ExportEnded ==
    /\ rt.cmd \in {"export", "exporttables"}
    /\ rt.err # "UsageError"
    /\ phase = "exported"

\* where the command called `call` for node i of class c
Claim_CallsOf(call, c, i) ==
    {k \in 1..Len(rt.calls) : rt.calls[k] = <<call, c, i>>}

\* C17: for a class that supports attachments, export calls export_files
\* exactly once for each exported instance, right after the instance's row
\* was written; exporttables never calls it.
C17_AttachmentsOncePerRow ==
    Claim_ExportEnded =>
        \A c \in Range(classes) : \A i \in DOMAIN snap.store[c] :
            IF rt.cmd = "export" /\ HasFiles(c)
            THEN /\ Cardinality(Claim_CallsOf("export_files", c, i)) = 1
                 /\ Cardinality(Claim_CallsOf("writerow", c, i)) = 1
                 /\ \A k \in Claim_CallsOf("export_files", c, i) :
                        k - 1 \in Claim_CallsOf("writerow", c, i)
            ELSE Claim_CallsOf("export_files", c, i) = {}

\* export wrote the attachment of an instance of the class with files
C17_Witness ==
    /\ Claim_ExportEnded
    /\ rt.cmd = "export"
    /\ \E c \in Range(classes) : \E i \in DOMAIN snap.store[c] :
           HasFiles(c) /\ Claim_CallsOf("export_files", c, i) # {}

\* the encoded fields of the row of node i of class c: the repr of every
\* exported property and the retired flag
Claim_RowFields(c, i) == export_list(snap.store, c, export_propnames(c), i)

\* the encoded property fields of the row, the retired flag left out
Claim_PropFields(c, i) ==
    SubSeq(Claim_RowFields(c, i), 1, Len(export_propnames(c)))

\* the exported nodes, as pairs <<class, id>>
Claim_ExportedNodes ==
    UNION {{<<c, i>> : i \in DOMAIN snap.store[c]} : c \in Range(classes)}

\* the longest encoded field over all exported rows of all classes
Claim_LongestField ==
    Claim_Max({0} \cup {MaxLen(Claim_RowFields(n[1], n[2])) :
                            n \in Claim_ExportedNodes})

\* the bound the export computes: for every row, its longest encoded
\* property field plus the characters the row holds besides its property
\* fields
Claim_UpperBound ==
    Claim_Max({0} \cup
        {MaxLen(Claim_PropFields(n[1], n[2]))
            + (SumLen(Claim_RowFields(n[1], n[2]))
                  - SumLen(Claim_PropFields(n[1], n[2]))) :
            n \in Claim_ExportedNodes})

\* every row and every journal of the tracker is in the directory, and the
\* command returned 0
Claim_AllWritten ==
    /\ rt.err = "" /\ rt.ret = 0
    /\ \A c \in Range(classes) :
           /\ c \in DOMAIN dir.csv /\ c \in DOMAIN dir.journals
           /\ Len(dir.csv[c]) = 1 + Cardinality(DOMAIN snap.store[c])
           /\ Len(dir.journals[c])
                  = SumLen([k \in 1..Len(Ascending(DOMAIN snap.journal[c])) |->
                       snap.journal[c][Ascending(DOMAIN snap.journal[c])[k]]])

\* C18 as stated: the warning is printed if and only if the longest encoded
\* field of the export exceeds CSV_FIELD_SIZE; in either case every row and
\* journal is written and the result is 0.
C18_Warning_Original ==
    Claim_ExportEnded =>
        /\ rt.warned <=> Claim_LongestField > csv_field_size
        /\ Claim_AllWritten

\* C18, amended: the warning is printed if and only if, for some row, the
\* longest encoded property field plus the row's other characters exceeds
\* CSV_FIELD_SIZE: always when a field exceeds the limit, and also when a
\* field comes that close to it; in either case every row and journal is
\* written and the result is 0.
C18_Warning ==
    Claim_ExportEnded =>
        /\ rt.warned <=> Claim_UpperBound > csv_field_size
        /\ Claim_LongestField > csv_field_size => rt.warned
        /\ Claim_AllWritten

\* the warning was printed although no field exceeds the limit
C18_Witness ==
    /\ Claim_ExportEnded
    /\ rt.warned
    /\ Claim_LongestField <= csv_field_size
    /\ Claim_LongestField > 0

\* where the import called `name` for class c
Claim_CallsAt(name, c) ==
    {k \in 1..Len(rt.calls) : rt.calls[k][1] = name /\ rt.calls[k][2] = c}

\* the identifier the n-th data row of class c's file gives
Claim_RowId(c, n) == StrToInt(eval_import(Claim_Fields(dir.csv[c][n + 1])[1]))

\* C23: for each class file do_import applies the data rows in file order,
\* the header never as a row; it applies the class's journal file only
\* after all rows of the class, and sets the class's counter only after the
\* journals.
C23_ImportSequence ==
    Claim_Imported =>
        \A c \in DOMAIN dir.csv :
            /\ Cardinality(Claim_CallsAt("import_list", c))
                   <= Len(dir.csv[c]) - 1
            /\ \A k \in Claim_CallsAt("import_list", c) :
                   Claim_Fields(dir.csv[c][1])[1] = F_id =>
                       rt.calls[k][3] =
                           Claim_RowId(c, Cardinality(
                               {n \in Claim_CallsAt("import_list", c) : n <= k}))
            /\ Cardinality(Claim_CallsAt("import_journals", c)) <= 1
            /\ Cardinality(Claim_CallsAt("setid", c)) <= 1
            /\ \A k \in Claim_CallsAt("import_journals", c) :
                   /\ Cardinality(Claim_CallsAt("import_list", c))
                          = Len(dir.csv[c]) - 1
                   /\ \A n \in Claim_CallsAt("import_list", c) : n < k
                   /\ k + 1 \in Claim_CallsAt("setid", c)
            /\ \A k \in Claim_CallsAt("setid", c) :
                   k - 1 \in Claim_CallsAt("import_journals", c)

\* a class file with two data rows was imported with its journals
C23_Witness ==
    /\ Claim_Imported
    /\ \E c \in DOMAIN dir.csv :
           /\ Len(dir.csv[c]) = 3
           /\ Cardinality(Claim_CallsAt("import_list", c)) = 2
           /\ Claim_CallsAt("setid", c) # {}

\* C26: when a class file holds the header and no data row, do_import sets
\* the class's counter to 2, whatever the counter was and whatever
\* identifiers the class holds.
C26_EmptyFileCounter ==
    Claim_Imported =>
        \A c \in DOMAIN dir.csv :
            (Len(dir.csv[c]) = 1 /\ Claim_Processed(c)) => counter[c] = 2

\* the counter of a class that holds two nodes went back to 2
C26_Witness ==
    /\ Claim_Imported
    /\ \E c \in DOMAIN dir.csv :
           /\ Len(dir.csv[c]) = 1
           /\ Claim_Processed(c)
           /\ pre.counter[c] > 2
           /\ Cardinality(DOMAIN store[c]) = 2
           /\ counter[c] = 2

---------------------------------------------------------------------------
(* Claims about filter, checked under SpecFilter.                          *)

\* do_filter has ended and its last assignment was reached by the property
\* loop: the assignments parsed, and an assignment before the last one is
\* one that resolves in the class
Claim_Filtering ==
    /\ flt.ret # -1
    /\ flt.pfa.err = ""
    /\ flt.pfa.props # <<>>
    /\ Len(flt.args) = 2 \/ flt.args[1] = C_issue

\* the last assignment's property name, its value and its components
Claim_PropName == flt.pfa.props[Len(flt.pfa.props)].key
Claim_PropValue == flt.pfa.props[Len(flt.pfa.props)].value
Claim_PathHops == SplitAll(Claim_PropName, Dot)

RECURSIVE Claim_Reached(_, _)
\* the class reached from class c by traversing hops, every one a Link or a
\* Multilink of the class before it; <<>> when a hop cannot be traversed
Claim_Reached(c, hops) ==
    IF hops = <<>> THEN c
    ELSE IF /\ Head(hops) \in DOMAIN getprops(c)
            /\ getprops(c)[Head(hops)].kind \in LinkKinds
    THEN Claim_Reached(getprops(c)[Head(hops)].classname, Tail(hops))
    ELSE <<>>

\* the class the k-th component of the path is looked up in
Claim_ClassAt(k) ==
    Claim_Reached(flt.args[1], SubSeq(Claim_PathHops, 1, k - 1))

\* what was decoded for the last assignment
Claim_Decoded ==
    {k \in 1..Len(flt.decoded) : flt.decoded[k].propname = Claim_PropName}

\* C13 as stated: when a non-final hop of a dotted path exists in the
\* current class and is no Link or Multilink, the call fails: the hop is
\* not skipped, no value is decoded for the path and no filter query runs.
C13_NotTraversable ==
    (/\ Claim_Filtering
     /\ \E k \in 1..(Len(Claim_PathHops) - 1) :
            /\ Claim_ClassAt(k) # <<>>
            /\ Claim_PathHops[k] \in DOMAIN getprops(Claim_ClassAt(k))
            /\ getprops(Claim_ClassAt(k))[Claim_PathHops[k]].kind
                   \notin LinkKinds) =>
        /\ flt.err # ""
        /\ Claim_Decoded = {}
        /\ ~flt.filtered

\* C14 as stated: when a non-final hop of a dotted path, the first one
\* included, is no property of the current class, the call fails with the
\* usage error that names the current class and the hop.
C14_NoSuchProperty ==
    Claim_Filtering =>
        \A k \in 1..(Len(Claim_PathHops) - 1) :
            (/\ Claim_ClassAt(k) # <<>>
             /\ Claim_PathHops[k] \notin DOMAIN getprops(Claim_ClassAt(k))) =>
                /\ flt.err = "UsageError"
                /\ flt.cls = Claim_ClassAt(k)
                /\ flt.hop = Claim_PathHops[k]

\* C15 as stated: the values of a dotted path are decoded against the final
\* hop's property on the class reached by the non-final hops; the final hop
\* does not advance the class, whatever its kind.
C15_FinalHopUnresolved ==
    (/\ Claim_Filtering
     /\ Len(Claim_PathHops) > 1
     /\ Claim_PropValue # NoVal
     /\ Claim_ClassAt(Len(Claim_PathHops)) # <<>>
     /\ Claim_PathHops[Len(Claim_PathHops)]
            \in DOMAIN getprops(Claim_ClassAt(Len(Claim_PathHops)))) =>
        /\ Claim_Decoded # {}
        /\ \A k \in Claim_Decoded :
               /\ flt.decoded[k].cls = Claim_ClassAt(Len(Claim_PathHops))
               /\ flt.decoded[k].prop = Claim_PathHops[Len(Claim_PathHops)]

\* props_from_args was called for the assignments of the command
Claim_Parsed == flt.ret # -1 /\ flt.pfa # NotCalled

\* the assignments of the command
Claim_Assignments == Tail(flt.args)

\* where the first '=' of the text stands
Claim_FirstEquals(text) ==
    CHOOSE i \in 1..Len(text) :
        text[i] = Equals /\ \A j \in 1..(i - 1) : text[j] # Equals

\* the name and the value the assignment stands for
Claim_NameOf(arg) == SubSeq(arg, 1, Claim_FirstEquals(arg) - 1)
Claim_ValueOf(arg) ==
    IF Claim_FirstEquals(arg) = Len(arg) THEN NoVal
    ELSE SubSeq(arg, Claim_FirstEquals(arg) + 1, Len(arg))

\* the text holds a '='
Claim_HasEquals(text) == \E i \in 1..Len(text) : text[i] = Equals

\* C19: props_from_args splits every argument at its first '=': the text
\* before it is the property name, the text after it the raw value, None
\* when that text is empty; an argument without '=' raises UsageError and
\* no mapping is returned.
C19_PropsFromArgs ==
    Claim_Parsed =>
        IF \A k \in 1..Len(Claim_Assignments) :
               Claim_HasEquals(Claim_Assignments[k])
        THEN /\ flt.pfa.err = ""
             /\ {flt.pfa.props[k].key : k \in 1..Len(flt.pfa.props)}
                    = {Claim_NameOf(Claim_Assignments[k]) :
                           k \in 1..Len(Claim_Assignments)}
             /\ \A k \in 1..Len(Claim_Assignments) :
                    (\A j \in (k + 1)..Len(Claim_Assignments) :
                         Claim_NameOf(Claim_Assignments[j])
                             # Claim_NameOf(Claim_Assignments[k])) =>
                        \E i \in 1..Len(flt.pfa.props) :
                            /\ flt.pfa.props[i].key
                                   = Claim_NameOf(Claim_Assignments[k])
                            /\ flt.pfa.props[i].value
                                   = Claim_ValueOf(Claim_Assignments[k])
        ELSE /\ flt.pfa.err = "UsageError"
             /\ flt.pfa.props = <<>>
             /\ flt.err = "UsageError"

\* title=x=y was parsed: the value holds the second '='
C19_Witness ==
    /\ Claim_Parsed
    /\ flt.args = <<C_issue, P_title \o <<Equals, "x", Equals, "y">>>>
    /\ flt.pfa.props = <<[key |-> P_title, value |-> <<"x", Equals, "y">>]>>

---------------------------------------------------------------------------
(* Claims about main, checked under SpecMain.                              *)

\* C16 as stated: main commits the database after run_command only if the
\* command returned 0; after a failed command db.commit is not called.
C16_CommitOnlyOnSuccess ==
    (main.pc # "run" /\ ret # 0) => main.commits = 0

---------------------------------------------------------------------------
(* Claims about main and the interactive session, checked under            *)
(* SpecSession.                                                            *)

\* main runs the interactive session
Claim_Interactive == main.mode = "interactive"

\* the answer to the question about unsaved changes is a yes
Claim_SaidYes == main.answer # <<>> /\ main.answer[1] \in {"y", "Y"}

\* C21: in an interactive session db.commit is called only by the commit
\* command, or when the session ends with a database open, db_uncommitted
\* True and a yes to the question about unsaved changes; no other command
\* and no other way out commits.
C21_CommitPolicy ==
    Claim_Interactive =>
        /\ committed => executed = N_commit
        /\ main.commits > 0 =>
               /\ main.commits = 1
               /\ main.pc \in {"return", "exit"}
               /\ db /\ db_uncommitted
               /\ main.prompted /\ Claim_SaidYes
        /\ raised => main.commits = 0

\* the session ended with a commit of the unsaved changes
C21_Witness ==
    /\ Claim_Interactive
    /\ main.commits = 1
    /\ main.answer = <<"Y">>

\* C22: on every way out of main with a database open (command succeeded,
\* command failed, session ended, exception escaped) db.close is called
\* exactly once, and nothing is done after it.
C22_ClosedOnce ==
    /\ [](main.pc = "exit" => main.closes = (IF db THEN 1 ELSE 0))
    /\ [](main.pc # "exit" => main.closes = 0)
    /\ [][main.pc # "exit"]_vars

\* an exception escaped from a session that had opened the database, and
\* the database was closed
C22_Witness ==
    /\ Claim_Interactive
    /\ main.pc = "exit"
    /\ raised
    /\ db
    /\ main.closes = 1

---------------------------------------------------------------------------
(* Claims about set, create and reindex, checked under SpecCmd.            *)

\* the text is letters followed by digits, and nothing else
Claim_IsDesignator(text) ==
    \E n \in 1..(Len(text) - 1) :
        /\ \A k \in 1..n : IsLetter(text[k])
        /\ \A k \in (n + 1)..Len(text) : IsDigit(text[k])

\* C30 as stated: do_reindex takes an argument for a designator only when
\* the whole argument is letters followed by digits; any other argument is
\* taken for a class name and no single item is re-indexed for it.
C30_WholeDesignator ==
    act.name = "reindex" =>
        \A k \in 1..Len(act.calls) :
            act.calls[k].call = "index" =>
                Claim_IsDesignator(act.args[act.calls[k].arg])

\* C24 as stated: whenever the store was changed by a command since the
\* last commit or rollback, db_uncommitted is True, also when the command
\* failed part-way.
C24_UnsavedTracked == Dirty(act) => db_uncommitted

\* set got as far as its loop over the designators
Claim_SetLooped == act.name = "set" /\ act.handed # <<>>

\* the raw value the command line gives for the property: that of the last
\* argument that assigns it
Claim_RawOf(key) ==
    LET j == CHOOSE j \in 2..Len(act.args) :
                 /\ Claim_NameOf(act.args[j]) = key
                 /\ \A i \in (j + 1)..Len(act.args) :
                        Claim_NameOf(act.args[i]) # key
    IN  Claim_ValueOf(act.args[j])

\* C28: in a set over several designators, the value handed to the decoder
\* for a property is, for every designator, the text the command line
\* gives for it (None for an empty text), never what the decoder returned
\* for an earlier designator; the parsed mapping is the same after every
\* designator.
C28_ParsedOnce ==
    Claim_SetLooped =>
        /\ \A k \in 1..Len(act.handed) :
               act.handed[k].value = Claim_RawOf(act.handed[k].key)
        /\ \A k \in 1..Len(act.propsets) : act.propsets[k] = act.parsed

\* two properties were set for two designators, each decoded from the text
\* of the command line
C28_Witness ==
    /\ act.name = "set"
    /\ act.err = ""
    /\ Len(act.sets) = 2
    /\ act.sets[1].itemid # act.sets[2].itemid
    /\ Len(act.handed) = 4
    /\ act.handed[3].value = <<"x">>
    /\ act.sets[2].props[1].value # <<"x">>

\* create got as far as the properties, and every assignment has a '='
Claim_CreateSupplied ==
    /\ act.name = "create"
    /\ Len(act.args) >= 1
    /\ act.args[1] \in FilterClasses
    /\ \A j \in 2..Len(act.args) : Claim_HasEquals(act.args[j])

\* the names of the properties supplied, on the command line or at the
\* prompts
Claim_SuppliedNames ==
    IF Len(act.args) = 1
    THEN {PropOrder(act.args[1])[k] :
             k \in {i \in 1..Len(act.answers) : act.answers[i] # <<>>}}
    ELSE {Claim_NameOf(act.args[j]) : j \in 2..Len(act.args)}

\* a supplied property cannot be decoded for the class
Claim_DecodeFails ==
    \E n \in Claim_SuppliedNames : n \notin DOMAIN getprops(act.args[1])

\* the class has a key property and it is not supplied
Claim_KeyNotSupplied ==
    /\ KeyOf(act.args[1]) # <<>>
    /\ KeyOf(act.args[1]) \notin Claim_SuppliedNames

\* C27: when a supplied property fails to decode, or the class has a key
\* property that is not supplied, do_create raises a usage error, cl.create
\* is not called and db_uncommitted is what it was.
C27_CreateAllOrNothing ==
    (Claim_CreateSupplied /\ (Claim_DecodeFails \/ Claim_KeyNotSupplied)) =>
        /\ act.err = "UsageError"
        /\ act.ret = 1
        /\ act.created = <<>>
        /\ db_uncommitted = act.unc

\* a user without its key property was asked for: the supplied property
\* was decoded, nothing was created, and the flag stayed as it was
C27_Witness ==
    /\ act.name = "create"
    /\ act.args = <<C_user, P_manager \o <<Equals, "1">>>>
    /\ act.decoded = 1
    /\ act.err = "UsageError"
    /\ act.created = <<>>
    /\ act.unc
    /\ db_uncommitted

===========================================================================
